---- MODULE Spec2Model ----
(***************************************************************************)
(* The shared sync cache of the reMarkable OneNote sync client: the binary *)
(* cache store (cache_io.c), the watcher that marks pages PENDING          *)
(* (watcher_updated.c) and the upload engine that delivers them            *)
(* (httpclient.c).  Two processes share one cache file and nothing else.   *)
(***************************************************************************)
EXTENDS Integers, Sequences, FiniteSets, TLC

(***************************************************************************)
(* Program constants                                                       *)
(***************************************************************************)
CACHE_MAGIC == 1380795208
CACHE_VERSION == 2
UUID_LEN == 36
MAX_PAGE_NUM_LEN == 8
HASH_TABLE_SIZE == 256
SYNC_PENDING == 0
SYNC_UPLOADED == 1
SYNC_FAILED == 2
SYNC_SKIPPED == 3
MAX_BATCH_SIZE == 10

(***************************************************************************)
(* Bounds of the model                                                     *)
(***************************************************************************)
\* config.max_retries (MAX_RETRIES in httpclient.conf)
MaxRetries == 3
\* the largest st_mtime a content file takes
MaxTime == 2
\* the most items a FILE* writes before fclose, or of a flush that fails
MaxEarlyFlush == 1
\* the most calls of the file system that fail in a run of SpecIO
MaxIoFailures == 1
\* number of inodes the file system can hold at once
NumInodes == 3

(***************************************************************************)
(* Identities.  A document id stands for a 36-character UUID; it is kept   *)
(* as the characters hash_string folds, so that the bucket of a document   *)
(* is computed as the code computes it.  DocA and DocB share a bucket.     *)
(***************************************************************************)
DocA == <<1, 34>>
DocB == <<2, 1>>
DocIds == {DocA, DocB}
PageIds == {"p1", "p2"}
\* the content files (<document>/<page>.rm) that can exist under the watch path
Files == {<<DocA, "p1">>, <<DocA, "p2">>, <<DocB, "p1">>}
Watcher == "watcher"
Engine == "engine"
Procs == {Watcher, Engine}
NoDoc == <<>>
Statuses == {SYNC_PENDING, SYNC_UPLOADED, SYNC_FAILED, SYNC_SKIPPED}

\* parse_content_file: the page number the .content file gives a page
\* ("" when the page is not listed)
PageNumOf(doc_id, page_uuid) == IF page_uuid = "p1" THEN <<48>> ELSE <<>>

(***************************************************************************)
(* The in-memory store: the hash table is kept as the sequence of its      *)
(* documents in iteration order (bucket 0 first, each bucket from its      *)
(* head), every document with its page list from the head.                 *)
(***************************************************************************)
\* hash = ((hash << 5) + hash) + c in unsigned arithmetic; the result is taken
\* modulo HASH_TABLE_SIZE, which divides 2^32, so the fold keeps only that residue
RECURSIVE HashFrom(_, _, _)
HashFrom(str, i, hash) ==
    IF i > Len(str) THEN hash
    ELSE HashFrom(str, i + 1, (hash * 33 + str[i]) % HASH_TABLE_SIZE)

hash_string(str) == HashFrom(str, 1, 5381) % HASH_TABLE_SIZE

NewPage(uuid) ==
    [uuid |-> uuid, page_num |-> <<>>, mtime |-> 0,
     sync_status |-> SYNC_PENDING, retry_count |-> 0]

\* doc->next = cache->table[hash]; cache->table[hash] = doc
InsertDoc(table, doc) ==
    LET b == hash_string(doc.doc_id)
        k == Cardinality({i \in 1..Len(table) : hash_string(table[i].doc_id) < b})
    IN SubSeq(table, 1, k) \o <<doc>> \o SubSeq(table, k + 1, Len(table))

\* a variant that looks at the head of the bucket only
cache_find_document_head(table, doc_id) ==
    LET b == hash_string(doc_id)
        chain == {i \in 1..Len(table) : hash_string(table[i].doc_id) = b}
        head == IF chain = {} THEN 0 ELSE CHOOSE i \in chain : \A j \in chain : i <= j
    IN IF head # 0 /\ table[head].doc_id = doc_id THEN head ELSE 0

\* index of the document cache_find_document returns, 0 for NULL
cache_find_document(table, doc_id) ==
    LET hits == {i \in 1..Len(table) : table[i].doc_id = doc_id}
    IN IF hits = {} THEN 0 ELSE CHOOSE i \in hits : \A j \in hits : i <= j

\* a variant that never finds a page
cache_find_page_none(pages, page_uuid) == 0

\* index of the page cache_find_page returns, 0 for NULL
cache_find_page(pages, page_uuid) ==
    LET hits == {i \in 1..Len(pages) : pages[i].uuid = page_uuid}
    IN IF hits = {} THEN 0 ELSE CHOOSE i \in hits : \A j \in hits : i <= j

\* strncpy(page->page_num, page_num, MAX_PAGE_NUM_LEN - 1)
CopyPageNum(page_num) ==
    IF Len(page_num) > MAX_PAGE_NUM_LEN - 1
    THEN SubSeq(page_num, 1, MAX_PAGE_NUM_LEN - 1) ELSE page_num

cache_add_or_update_page(table, doc_id, page_uuid, page_num, mtime, status) ==
    LET d0 == cache_find_document(table, doc_id)
        t1 == IF d0 = 0 THEN InsertDoc(table, [doc_id |-> doc_id, pages |-> <<>>])
              ELSE table
        d == cache_find_document(t1, doc_id)
        p0 == cache_find_page(t1[d].pages, page_uuid)
        pages1 == IF p0 = 0 THEN <<NewPage(page_uuid)>> \o t1[d].pages
                  ELSE t1[d].pages
        p == cache_find_page(pages1, page_uuid)
        page == [pages1[p] EXCEPT !.page_num = CopyPageNum(page_num),
                                  !.mtime = mtime,
                                  !.sync_status = status]
    IN [t1 EXCEPT ![d].pages = [pages1 EXCEPT ![p] = page]]

\* a variant that creates the page it does not find
cache_update_page_status_create(table, doc_id, page_uuid, status, retry_count) ==
    [rc |-> 0,
     table |-> cache_add_or_update_page(table, doc_id, page_uuid, <<>>, 0, status)]

\* a variant that sets the status and leaves retry_count as it is
cache_update_page_status_keep(table, doc_id, page_uuid, status, retry_count) ==
    LET d == cache_find_document(table, doc_id)
        p == IF d = 0 THEN 0 ELSE cache_find_page(table[d].pages, page_uuid)
    IN IF d = 0 \/ p = 0 THEN [rc |-> -1, table |-> table]
       ELSE [rc |-> 0, table |-> [table EXCEPT ![d].pages[p].sync_status = status]]

\* [rc |-> the return value, table |-> the table afterwards]
cache_update_page_status(table, doc_id, page_uuid, status, retry_count) ==
    LET d == cache_find_document(table, doc_id)
        p == IF d = 0 THEN 0 ELSE cache_find_page(table[d].pages, page_uuid)
    IN IF d = 0 \/ p = 0 THEN [rc |-> -1, table |-> table]
       ELSE [rc |-> 0,
             table |-> [table EXCEPT ![d].pages[p].sync_status = status,
                                     ![d].pages[p].retry_count = retry_count]]

\* every page record of the table, as <<document index, page index>>, in
\* the order the three nested loops visit them
RECURSIVE PagePtrs(_, _)
PagePtrs(table, d) ==
    IF d > Len(table) THEN <<>>
    ELSE [i \in 1..Len(table[d].pages) |-> <<d, i>>] \o PagePtrs(table, d + 1)

PageAt(table, ptr) == table[ptr[1]].pages[ptr[2]]

\* a variant that does not stop at max_pages
TakeAll(s, n) == s

Take(s, n) == IF Len(s) > n THEN SubSeq(s, 1, n) ELSE s

\* the NULL-terminated array of page pointers, <<>> for a NULL result
cache_get_pending_pages(table, max_pages) ==
    IF max_pages <= 0 THEN <<>>
    ELSE LET IsPending(ptr) == PageAt(table, ptr).sync_status = SYNC_PENDING
         IN Take(SelectSeq(PagePtrs(table, 1), IsPending), max_pages)

cache_count_by_status(table, status) ==
    LET Has(ptr) == PageAt(table, ptr).sync_status = status
    IN Len(SelectSeq(PagePtrs(table, 1), Has))

\* the id of the first document that holds a page with this uuid
cache_get_document_for_page(table, page_uuid) ==
    LET Has(ptr) == PageAt(table, ptr).uuid = page_uuid
        hits == SelectSeq(PagePtrs(table, 1), Has)
    IN IF hits = <<>> THEN NoDoc ELSE table[hits[1][1]].doc_id

\* the documents of a table, each with its id and its pages in list order
DocSet(tbl) == {tbl[i] : i \in 1..Len(tbl)}

\* two tables hold the same documents with the same pages in the same page
\* order (the order of the documents in a bucket is left out)
SameStore(t1, t2) == Len(t1) = Len(t2) /\ DocSet(t1) = DocSet(t2)

(***************************************************************************)
(* The record codec.  A file is the sequence of the items fwrite wrote,    *)
(* one unit per fwrite call; a read of a unit of another kind, or past the *)
(* end, is a failed fread.  "hole" units are the zero bytes of a write     *)
(* beyond the end of a file.                                               *)
(***************************************************************************)
U(t, v) == [t |-> t, v |-> v]
Hole == U("hole", 0)

\* a variant that writes 0 for every retry_count
EncodePageNoRetry(page) ==
    <<U("uuid", page.uuid), U("numlen", Len(page.page_num))>>
    \o (IF Len(page.page_num) > 0 THEN <<U("num", page.page_num)>> ELSE <<>>)
    \o <<U("mtime", page.mtime), U("status", page.sync_status), U("retry", 0)>>

EncodePage(page) ==
    <<U("uuid", page.uuid), U("numlen", Len(page.page_num))>>
    \o (IF Len(page.page_num) > 0 THEN <<U("num", page.page_num)>> ELSE <<>>)
    \o <<U("mtime", page.mtime), U("status", page.sync_status),
         U("retry", page.retry_count)>>

RECURSIVE EncodePages(_, _)
EncodePages(pages, i) ==
    IF i > Len(pages) THEN <<>>
    ELSE EncodePage(pages[i]) \o EncodePages(pages, i + 1)

RECURSIVE EncodeDocs(_, _)
EncodeDocs(table, d) ==
    IF d > Len(table) THEN <<>>
    ELSE <<U("idlen", UUID_LEN), U("id", table[d].doc_id),
           U("npages", Len(table[d].pages))>>
         \o EncodePages(table[d].pages, 1) \o EncodeDocs(table, d + 1)

\* a variant that writes the header of a version 1 file
EncodeLegacy(table) ==
    <<U("magic", CACHE_MAGIC), U("version", 1),
      U("ndocs", Len(table))>> \o EncodeDocs(table, 1)

\* the items cache_save writes for a table
Encode(table) ==
    <<U("magic", CACHE_MAGIC), U("version", CACHE_VERSION),
      U("ndocs", Len(table))>> \o EncodeDocs(table, 1)

Fread(c, pos, t) == pos <= Len(c) /\ c[pos].t = t

\* a variant that takes the pages of a version 1 file for uploaded
ReadPageUploaded(c, pos, version) ==
    LET Fail(q) == [ok |-> FALSE, pos |-> q, page |-> NewPage("")]
    IN
    IF ~Fread(c, pos, "uuid") THEN Fail(pos)
    ELSE IF ~Fread(c, pos + 1, "numlen") THEN Fail(pos + 1)
    ELSE LET n == c[pos + 1].v
             q == IF n > 0 THEN pos + 3 ELSE pos + 2
         IN
         IF n >= MAX_PAGE_NUM_LEN THEN Fail(pos + 2)
         ELSE IF n > 0 /\ ~Fread(c, pos + 2, "num") THEN Fail(pos + 2)
         ELSE IF ~Fread(c, q, "mtime") THEN Fail(q)
         ELSE LET base == [uuid |-> c[pos].v,
                           page_num |-> IF n > 0 THEN c[pos + 2].v ELSE <<>>,
                           mtime |-> c[q].v,
                           sync_status |-> SYNC_UPLOADED,
                           retry_count |-> 0]
              IN
              IF version = CACHE_VERSION
              THEN IF ~Fread(c, q + 1, "status") THEN Fail(q + 1)
                   ELSE IF ~Fread(c, q + 2, "retry") THEN Fail(q + 2)
                   ELSE [ok |-> TRUE, pos |-> q + 3,
                         page |-> [base EXCEPT !.sync_status = c[q + 1].v,
                                               !.retry_count = c[q + 2].v]]
              ELSE [ok |-> TRUE, pos |-> q + 1, page |-> base]

\* one iteration of the page loop: ok, the file position afterwards, the page
ReadPage(c, pos, version) ==
    LET Fail(q) == [ok |-> FALSE, pos |-> q, page |-> NewPage("")]
    IN
    IF ~Fread(c, pos, "uuid") THEN Fail(pos)
    ELSE IF ~Fread(c, pos + 1, "numlen") THEN Fail(pos + 1)
    ELSE LET n == c[pos + 1].v
             q == IF n > 0 THEN pos + 3 ELSE pos + 2
         IN
         IF n >= MAX_PAGE_NUM_LEN THEN Fail(pos + 2)
         ELSE IF n > 0 /\ ~Fread(c, pos + 2, "num") THEN Fail(pos + 2)
         ELSE IF ~Fread(c, q, "mtime") THEN Fail(q)
         ELSE LET base == [uuid |-> c[pos].v,
                           page_num |-> IF n > 0 THEN c[pos + 2].v ELSE <<>>,
                           mtime |-> c[q].v,
                           sync_status |-> SYNC_PENDING,
                           retry_count |-> 0]
              IN
              IF version = CACHE_VERSION
              THEN IF ~Fread(c, q + 1, "status") THEN Fail(q + 1)
                   ELSE IF ~Fread(c, q + 2, "retry") THEN Fail(q + 2)
                   ELSE [ok |-> TRUE, pos |-> q + 3,
                         page |-> [base EXCEPT !.sync_status = c[q + 1].v,
                                               !.retry_count = c[q + 2].v]]
              ELSE [ok |-> TRUE, pos |-> q + 1, page |-> base]

\* the page loop: it stops at the first failed page and keeps the earlier ones
RECURSIVE ReadPages(_, _, _, _, _)
ReadPages(c, pos, left, version, acc) ==
    IF left = 0 THEN [pos |-> pos, pages |-> acc]
    ELSE LET r == ReadPage(c, pos, version)
         IN IF r.ok
            THEN ReadPages(c, r.pos, left - 1, version, Append(acc, r.page))
            ELSE [pos |-> r.pos, pages |-> acc]

\* the document loop: a document whose page loop stopped early is still
\* added, and the loop goes on from the file position reached
RECURSIVE ReadDocs(_, _, _, _, _)
ReadDocs(c, pos, left, version, table) ==
    IF left = 0 THEN table
    ELSE IF ~Fread(c, pos, "idlen") THEN table
    ELSE IF c[pos].v # UUID_LEN THEN table
    ELSE IF ~Fread(c, pos + 1, "id") THEN table
    ELSE IF ~Fread(c, pos + 2, "npages") THEN table
    ELSE LET r == ReadPages(c, pos + 3, c[pos + 2].v, version, <<>>)
             doc == [doc_id |-> c[pos + 1].v, pages |-> r.pages]
         IN ReadDocs(c, r.pos, left - 1, version, InsertDoc(table, doc))

\* the load procedure shared by cache_open and cache_reload:
\* hdr is FALSE when the header is rejected (the table is then empty)
LoadFile(c) ==
    IF ~Fread(c, 1, "magic") \/ c[1].v # CACHE_MAGIC
    THEN [hdr |-> FALSE, table |-> <<>>]
    ELSE IF ~Fread(c, 2, "version")
    THEN [hdr |-> FALSE, table |-> <<>>]
    ELSE IF c[2].v # CACHE_VERSION /\ c[2].v # 1
    THEN [hdr |-> FALSE, table |-> <<>>]
    ELSE IF ~Fread(c, 3, "ndocs")
    THEN [hdr |-> FALSE, table |-> <<>>]
    ELSE [hdr |-> TRUE, table |-> ReadDocs(c, 4, c[3].v, c[2].v, <<>>)]


(***************************************************************************)
(* State                                                                   *)
(***************************************************************************)
VARIABLES
    fsMtime,    \* st_mtime of each content file, 0 when it does not exist
    table,      \* per process: the documents and pages of its CacheHandle
    dirty,      \* per process: cache->dirty
    inodes,     \* the content of each inode of the cache directory
    realIno,    \* the inode cache->path names, 0 when the file is missing
    tempIno,    \* the inode "<path>.tmp" names, 0 when it is missing
    pc,         \* per process: where it stands in its loop
    fd,         \* per process: the inode of the FILE* it has open, 0 for none
    lock,       \* per process: the flock it holds on fd: "UN", "SH" or "EX"
    wbuf,       \* per process: the items fwrite has buffered and not written
    woff,       \* per process: the file offset of its FILE*
    pending,    \* the engine's array of pending page pointers
    pidx,       \* the engine's index i into pending
    processed,  \* the engine's count of uploaded pages in this cycle
    scan,       \* history: the document the last step scanned, the pages it re-armed
    attempt,    \* history: the delivery the last step attempted
    hist,       \* history: per view and file, the last final status shown since a re-arm
    failedAt,   \* history: files the engine marked FAILED and the scanner has not re-armed
    ioFailures, \* history: how many calls of the file system have failed
    intended,   \* history: per inode, the outputs of the saves that opened it
    lastRead,   \* history: what the last completed cache_reload read
    saveLog,    \* history: per process, its cache_save in progress or just returned
    call,       \* history: the last call of the store or step of the engine's cycle
    commit,     \* history: the table of the last save renamed, what a reload found of it
    stop        \* the termination signals sent, keep_running, how each process ended

vars == <<fsMtime, table, dirty, inodes, realIno, tempIno, pc, fd, lock, wbuf,
          woff, pending, pidx, processed, scan, attempt, hist, failedAt,
          ioFailures, intended, lastRead, saveLog, call, commit, stop>>

Inodes == 1..NumInodes
Views == {Watcher, Engine, "file"}
Final == {SYNC_UPLOADED, SYNC_FAILED, SYNC_SKIPPED}
NoScan == [doc |-> NoDoc, prev |-> {}]
NoAttempt == [file |-> <<>>, result |-> "none", retry |-> 0, failed |-> FALSE]
\* done: a cache_reload has returned; whole: what it read was the output of
\* one of the saves that opened the inode (or there was no file)
NoRead == [done |-> FALSE, whole |-> TRUE]
\* ino: the inode the save opened as its temp file, until it returns; err: an
\* I/O call of the save failed; ret: "none" until it returns, then "ok" or "error"
NoSave == [ino |-> 0, err |-> FALSE, ret |-> "none", wrote |-> FALSE]
NoCall == [op |-> "none"]
\* how a process ended: how is "none" while it runs; at: where it stood in its
\* loop; unsaved: its store was dirty and it ran no final cache_save
NoEnd == [how |-> "none", at |-> "none", unsaved |-> FALSE]
\* sent: the processes a termination signal was sent to; keep_running: the
\* flag of the engine; slept: the seconds of the engine's sleep so far;
\* late: the sleep(1) calls and cycles the engine began after its signal
NoStop == [sent |-> {}, keep_running |-> TRUE, slept |-> 0, late |-> 0,
           end |-> [p \in Procs |-> NoEnd]]
\* some, last: a cache_save has renamed its temp file over the cache path, the
\* table it wrote; seenSome, seen: the same at the fopen of the cache_reload in
\* progress; read: a cache_reload has returned; same: what it loaded is seen
NoCommit == [some |-> FALSE, last |-> <<>>, seenSome |-> FALSE, seen |-> <<>>,
             read |-> FALSE, same |-> TRUE]

\* the record of file f in a table: <<document index, page index>>, <<0, 0>> if absent
Locate(tbl, f) ==
    LET d == cache_find_document(tbl, f[1])
        p == IF d = 0 THEN 0 ELSE cache_find_page(tbl[d].pages, f[2])
    IN IF p = 0 THEN <<0, 0>> ELSE <<d, p>>

Has(tbl, f) == Locate(tbl, f) # <<0, 0>>
Rec(tbl, f) == PageAt(tbl, Locate(tbl, f))
StatusIn(tbl, f) == IF Has(tbl, f) THEN Rec(tbl, f).sync_status ELSE -1

\* the table a load of the cache file yields
FileTable(inos, real) == IF real = 0 THEN <<>> ELSE LoadFile(inos[real]).table

ViewStatus(v, f) ==
    IF v = "file" THEN StatusIn(FileTable(inodes, realIno), f)
    ELSE StatusIn(table[v], f)


(***************************************************************************)
(* The Change Scanner (watcher_updated.c)                                  *)
(***************************************************************************)
\* every order in which readdir may return the names of a set
Orders(S) ==
    {s \in [1..Cardinality(S) -> S] : \A i, j \in 1..Cardinality(S) : i # j => s[i] # s[j]}

\* a variant that only marks pages the cache does not know
NeedsUpdateNewOnly(present, page_mtime, st_mtime) == ~present

\* a variant that also marks a page whose file is as old as the cache says
NeedsUpdateNotNewer(present, page_mtime, st_mtime) == ~present \/ page_mtime <= st_mtime

\* the test of scan_document_pages for "new or modified page"
NeedsUpdate(present, page_mtime, st_mtime) == ~present \/ page_mtime < st_mtime

\* the loop of scan_document_pages over the .rm files names[i..] of a document;
\* acc carries the table, pages_updated and the pages marked (with the status
\* and retry_count each had before, -1 for a page that was not in the store)
RECURSIVE ScanPages(_, _, _, _, _)
ScanPages(mt, doc_id, names, i, acc) ==
    IF i > Len(names) THEN acc
    ELSE
    LET f == <<doc_id, names[i]>>
        st_mtime == mt[f]
        present == Has(acc.table, f)
        page == IF present THEN Rec(acc.table, f) ELSE NewPage(names[i])
        before == <<f, IF present THEN page.sync_status ELSE -1, page.retry_count>>
    IN
    IF NeedsUpdate(present, page.mtime, st_mtime)
    THEN ScanPages(mt, doc_id, names, i + 1,
            [table |-> cache_add_or_update_page(acc.table, doc_id, names[i],
                           PageNumOf(doc_id, names[i]), st_mtime, SYNC_PENDING),
             updated |-> acc.updated + 1,
             marked |-> acc.marked \cup {before}])
    ELSE IF present /\ page.sync_status = SYNC_UPLOADED /\ page.mtime < st_mtime
    THEN LET t1 == cache_update_page_status(acc.table, doc_id, names[i],
                                            SYNC_PENDING, 0).table
             loc == Locate(t1, f)
         IN ScanPages(mt, doc_id, names, i + 1,
                [table |-> [t1 EXCEPT ![loc[1]].pages[loc[2]].mtime = st_mtime],
                 updated |-> acc.updated + 1,
                 marked |-> acc.marked \cup {before}])
    ELSE ScanPages(mt, doc_id, names, i + 1, acc)

scan_document_pages(tbl, mt, doc_id, names) ==
    ScanPages(mt, doc_id, names, 1, [table |-> tbl, updated |-> 0, marked |-> {}])

\* the .rm files of a document directory
RmFiles(mt, doc_id) == {u \in PageIds : <<doc_id, u>> \in Files /\ mt[<<doc_id, u>>] > 0}

(***************************************************************************)
(* The Upload Orchestrator (httpclient.c), one iteration of the loop of    *)
(* process_pending_pages over pending[i].  outcome is what the             *)
(* collaborators answer: "nopath" (reconstruct_virtual_path fails),        *)
(* "filtered" (is_under_shared_path is false), "ok" or "fail" (upload_file)*)
(***************************************************************************)
Outcomes == {"nopath", "filtered", "ok", "fail"}

\* a variant that lets the count pass max_retries before giving up
RetryVerdictLate(new_retry_count) ==
    IF new_retry_count > MaxRetries THEN SYNC_FAILED ELSE SYNC_PENDING

\* the status a page takes after a failed upload that brings its count to new_retry_count
RetryVerdict(new_retry_count) ==
    IF new_retry_count >= MaxRetries THEN SYNC_FAILED ELSE SYNC_PENDING

\* [table, processed, file]: file is the <<doc_id, uuid>> the calls were made for
HandlePage(tbl, ptr, outcome, count) ==
    LET page == PageAt(tbl, ptr)
        doc_id == cache_get_document_for_page(tbl, page.uuid)
        new_retry_count == (page.retry_count + 1) % 256
        Upd(status, retry) ==
            cache_update_page_status(tbl, doc_id, page.uuid, status, retry).table
    IN
    IF doc_id = NoDoc
    THEN [table |-> tbl, processed |-> count, file |-> <<>>]
    ELSE IF outcome \in {"nopath", "filtered"}
    THEN [table |-> Upd(SYNC_SKIPPED, 0), processed |-> count,
          file |-> <<doc_id, page.uuid>>]
    ELSE IF outcome = "ok"
    THEN [table |-> Upd(SYNC_UPLOADED, 0), processed |-> count + 1,
          file |-> <<doc_id, page.uuid>>]
    ELSE [table |-> Upd(RetryVerdict(new_retry_count), new_retry_count),
          processed |-> count, file |-> <<doc_id, page.uuid>>]

(***************************************************************************)
(* History variables                                                       *)
(***************************************************************************)
\* marked: the files the scanner re-armed in this step; after: the table of
\* each view (a store or the cache file) the step wrote
HistNext(marked, after) ==
    hist' = [v \in Views |-> [f \in Files |->
                IF f \in marked THEN -1
                ELSE IF v \notin DOMAIN after THEN hist[v][f]
                ELSE LET now == StatusIn(after[v], f)
                     IN IF now \in Final /\ now # ViewStatus(v, f) THEN now
                        ELSE hist[v][f]]]

MarkedFiles(marked) == {m[1] : m \in marked}


(***************************************************************************)
(* cache_reload and cache_save as whole calls                              *)
(***************************************************************************)
\* cache_reload on the content read (missing: fopen failed): the table, the
\* dirty flag and the return value; was_dirty is cache->dirty before the call
ReloadResult(missing, content, was_dirty) ==
    IF missing THEN [table |-> <<>>, dirty |-> FALSE, rc |-> 0]
    ELSE LET r == LoadFile(content)
         IN IF r.hdr THEN [table |-> r.table, dirty |-> FALSE, rc |-> 0]
            ELSE [table |-> <<>>, dirty |-> was_dirty, rc |-> -1]

\* a variant that takes a store for unsaved when it loaded no document
cache_open_unsaved(missing, content) ==
    LET tbl == IF missing THEN <<>> ELSE LoadFile(content).table
    IN [table |-> tbl, dirty |-> tbl = <<>>]

\* cache_open on the content read (missing: fopen failed): the table and the
\* dirty flag of the handle returned
cache_open(missing, content) ==
    [table |-> IF missing THEN <<>> ELSE LoadFile(content).table, dirty |-> FALSE]

\* cache_save run from fopen to rename with no other process in between.
\* ok: fopen and rename succeed.  No file is open before or after the call,
\* so the inode number of the new file carries no meaning: it is 1.
SaveWhole(tbl, is_dirty, ok) ==
    IF ~is_dirty
    THEN [inodes |-> inodes, realIno |-> realIno, dirty |-> FALSE, rc |-> 0]
    ELSE IF ok
    THEN [inodes |-> [inodes EXCEPT ![1] = Encode(tbl)], realIno |-> 1,
          dirty |-> FALSE, rc |-> 0]
    ELSE [inodes |-> inodes, realIno |-> realIno, dirty |-> TRUE, rc |-> -1]

(***************************************************************************)
(* Initial states: both processes have run cache_open on a cache file left *)
(* by earlier runs (or on no file), and the content files the cache knows  *)
(* exist with the recorded modification time.                              *)
(***************************************************************************)
InitPage(status, retry) ==
    [uuid |-> "p1", page_num |-> PageNumOf(DocA, "p1"), mtime |-> 1,
     sync_status |-> status, retry_count |-> retry]

InitTables ==
    {<<>>} \cup
    {<<[doc_id |-> DocA, pages |-> <<InitPage(st[1], st[2])>>]>> :
        st \in {<<SYNC_PENDING, 0>>, <<SYNC_PENDING, 1>>, <<SYNC_UPLOADED, 0>>,
                <<SYNC_FAILED, MaxRetries>>, <<SYNC_SKIPPED, 0>>}}

InitWith(t0) ==
    /\ inodes = [i \in Inodes |-> IF i = 1 /\ t0 # <<>> THEN Encode(t0) ELSE <<>>]
    /\ realIno = IF t0 = <<>> THEN 0 ELSE 1
    /\ tempIno = 0
    /\ table = [p \in Procs |-> ReloadResult(t0 = <<>>, Encode(t0), FALSE).table]
    /\ dirty = [p \in Procs |-> FALSE]
    /\ fsMtime = [f \in Files |-> IF Has(t0, f) THEN Rec(t0, f).mtime ELSE 0]
    /\ pc = [p \in Procs |-> "idle"]
    /\ fd = [p \in Procs |-> 0]
    /\ lock = [p \in Procs |-> "UN"]
    /\ wbuf = [p \in Procs |-> <<>>]
    /\ woff = [p \in Procs |-> 0]
    /\ pending = <<>>
    /\ pidx = 1
    /\ processed = 0
    /\ scan = NoScan
    /\ attempt = NoAttempt
    /\ hist = [v \in Views |-> [f \in Files |->
                 IF StatusIn(t0, f) \in Final THEN StatusIn(t0, f) ELSE -1]]
    /\ failedAt = {f \in Files : StatusIn(t0, f) = SYNC_FAILED}
    /\ ioFailures = 0
    /\ intended = [i \in Inodes |-> {}]
    /\ lastRead = NoRead
    /\ saveLog = [p \in Procs |-> NoSave]
    /\ call = NoCall
    /\ commit = NoCommit
    /\ stop = NoStop

Init == \E t0 \in InitTables : InitWith(t0)

ioVars == <<tempIno, fd, lock, wbuf, woff, intended, lastRead, saveLog, commit, stop>>

\* In Spec the user creates and keeps editing page p1 of document A, and
\* creates page p2 of the same document.
EditTimes(f) == IF f = <<DocA, "p1">> THEN 1..MaxTime
                ELSE IF f = <<DocA, "p2">> THEN {1} ELSE {}

\* the documents whose files raise inotify events in Spec
EventDocs == {f[1] : f \in {g \in Files : EditTimes(g) # {}}}

\* Spec runs on a file system whose calls succeed; the failures of fopen,
\* fwrite, fclose and rename are the subject of SpecIO.
SaveOutcomes == {TRUE}

(***************************************************************************)
(* The environment: the user edits a page, its content file gets a newer   *)
(* modification time                                                       *)
(***************************************************************************)
ContentChange(f, m) ==
    /\ m > fsMtime[f]
    /\ fsMtime' = [fsMtime EXCEPT ![f] = m]
    /\ scan' = NoScan
    /\ attempt' = NoAttempt
    /\ UNCHANGED <<table, dirty, inodes, realIno, pc, pending, pidx, processed,
                   hist, failedAt, ioFailures, call>>
    /\ UNCHANGED ioVars

(***************************************************************************)
(* The watcher's event handlers, each with its cache_save                  *)
(***************************************************************************)
WatcherEvent(doc_id, names, ok, always_save) ==
    LET r == scan_document_pages(table[Watcher], fsMtime, doc_id, names)
        is_dirty == dirty[Watcher] \/ r.updated > 0
        saving == always_save \/ r.updated > 0
        s == IF saving THEN SaveWhole(r.table, is_dirty, ok)
             ELSE [inodes |-> inodes, realIno |-> realIno, dirty |-> is_dirty, rc |-> 0]
    IN
    /\ pc[Watcher] = "idle"
    /\ table' = [table EXCEPT ![Watcher] = r.table]
    /\ dirty' = [dirty EXCEPT ![Watcher] = s.dirty]
    /\ inodes' = s.inodes
    /\ realIno' = s.realIno
    /\ ioFailures' = ioFailures + (IF s.rc # 0 THEN 1 ELSE 0)
    /\ scan' = [doc |-> doc_id, prev |-> r.marked]
    /\ attempt' = NoAttempt
    /\ failedAt' = failedAt \ MarkedFiles(r.marked)
    /\ UNCHANGED <<fsMtime, pc, pending, pidx, processed, call>>
    /\ UNCHANGED ioVars
    /\ HistNext(MarkedFiles(r.marked),
                IF saving /\ is_dirty
                THEN (Watcher :> r.table) @@ ("file" :> FileTable(s.inodes, s.realIno))
                ELSE (Watcher :> r.table))

\* process_metadata_change: scan, then save if a page was updated
WatcherMetadataEvent ==
    \E doc_id \in EventDocs, ok \in SaveOutcomes :
        \E names \in Orders(RmFiles(fsMtime, doc_id)) :
            WatcherEvent(doc_id, names, ok, FALSE)

\* a direct .rm change in the event loop of main: scan, then save
WatcherRmEvent ==
    \E doc_id \in EventDocs, ok \in SaveOutcomes :
        \E names \in Orders(RmFiles(fsMtime, doc_id)) :
            WatcherEvent(doc_id, names, ok, TRUE)

(***************************************************************************)
(* The upload engine's cycle: process_pending_pages                        *)
(***************************************************************************)
EngineCycleStart ==
    LET r == ReloadResult(realIno = 0,
                          IF realIno = 0 THEN <<>> ELSE inodes[realIno],
                          dirty[Engine])
    IN
    /\ pc[Engine] = "idle"
    /\ table' = [table EXCEPT ![Engine] = r.table]
    /\ dirty' = [dirty EXCEPT ![Engine] = r.dirty]
    /\ pending' = cache_get_pending_pages(r.table, MAX_BATCH_SIZE)
    /\ pidx' = 1
    /\ processed' = 0
    /\ pc' = [pc EXCEPT ![Engine] = "batch"]
    /\ scan' = NoScan
    /\ attempt' = NoAttempt
    /\ call' = [op |-> "start", skipped |-> {}, delivered |-> {}]
    /\ UNCHANGED <<fsMtime, inodes, realIno, failedAt, ioFailures>>
    /\ UNCHANGED ioVars
    /\ HistNext({}, (Engine :> r.table))

EngineHandle ==
    \E outcome \in Outcomes :
    LET r == HandlePage(table[Engine], pending[pidx], outcome, processed)
        page == PageAt(table[Engine], pending[pidx])
        delivered == outcome \in {"ok", "fail"} /\ r.file # <<>>
        skipped == outcome \in {"nopath", "filtered"} /\ r.file # <<>>
        \* the page pending[i] points to
        of == <<table[Engine][pending[pidx][1]].doc_id, page.uuid>>
    IN
    /\ pc[Engine] = "batch"
    /\ pidx <= Len(pending)
    /\ table' = [table EXCEPT ![Engine] = r.table]
    /\ dirty' = [dirty EXCEPT ![Engine] = dirty[Engine] \/ r.file # <<>>]
    /\ processed' = r.processed
    /\ pidx' = pidx + 1
    /\ attempt' = IF delivered
                  THEN [file |-> r.file, result |-> outcome,
                        retry |-> page.retry_count, failed |-> r.file \in failedAt]
                  ELSE NoAttempt
    /\ failedAt' = IF r.file # <<>> /\ StatusIn(r.table, r.file) = SYNC_FAILED
                   THEN failedAt \cup {r.file} ELSE failedAt
    /\ scan' = NoScan
    /\ call' = [op |-> "handle", of |-> of, changed |-> r.file,
                was |-> IF r.file = <<>> THEN -1 ELSE StatusIn(table[Engine], r.file),
                skipped |-> call.skipped \cup (IF skipped THEN {of} ELSE {}),
                delivered |-> call.delivered \cup (IF delivered THEN {r.file} ELSE {})]
    /\ UNCHANGED <<fsMtime, inodes, realIno, pc, pending, ioFailures>>
    /\ UNCHANGED ioVars
    /\ HistNext({}, (Engine :> r.table))

EngineCycleEnd ==
    \E ok \in SaveOutcomes :
    LET saving == processed > 0 \/ dirty[Engine]
        s == IF saving THEN SaveWhole(table[Engine], dirty[Engine], ok)
             ELSE [inodes |-> inodes, realIno |-> realIno,
                   dirty |-> dirty[Engine], rc |-> 0]
    IN
    /\ pc[Engine] = "batch"
    /\ pidx > Len(pending)
    /\ inodes' = s.inodes
    /\ realIno' = s.realIno
    /\ dirty' = [dirty EXCEPT ![Engine] = s.dirty]
    /\ ioFailures' = ioFailures + (IF s.rc # 0 THEN 1 ELSE 0)
    /\ pending' = <<>>
    /\ pidx' = 1
    /\ pc' = [pc EXCEPT ![Engine] = "idle"]
    /\ scan' = NoScan
    /\ attempt' = NoAttempt
    /\ call' = NoCall
    /\ UNCHANGED <<fsMtime, table, processed, failedAt>>
    /\ UNCHANGED ioVars
    /\ HistNext({}, IF saving /\ dirty[Engine]
                    THEN ("file" :> FileTable(s.inodes, s.realIno))
                    ELSE <<>>)

UserEdit == \E f \in Files : \E m \in EditTimes(f) : ContentChange(f, m)

Next ==
    \/ UserEdit
    \/ WatcherMetadataEvent
    \/ WatcherRmEvent
    \/ EngineCycleStart
    \/ EngineHandle
    \/ EngineCycleEnd

Spec == Init /\ [][Next]_vars

(***************************************************************************)
(* Properties of the page life cycle, checked under Spec                   *)
(***************************************************************************)
\* the tables of the two stores and of the cache file
ViewTables == <<table[Watcher], table[Engine], FileTable(inodes, realIno)>>

\* the status changes of one page that need a re-arm in between
Forbidden == {<<SYNC_UPLOADED, SYNC_FAILED>>, <<SYNC_FAILED, SYNC_UPLOADED>>,
              <<SYNC_SKIPPED, SYNC_FAILED>>, <<SYNC_SKIPPED, SYNC_UPLOADED>>}

\* C5: in no store and not in the cache file does a page go from UPLOADED to
\* FAILED, from FAILED to UPLOADED, or from SKIPPED to FAILED or UPLOADED,
\* unless the scanner re-armed the page in between (hist holds the last of
\* these statuses the page had in a view since its last re-arm).
C5_NoTerminalSwitch ==
    [][\A v \in Views, f \in Files :
          (hist[v][f] # -1 /\ hist'[v][f] # -1) =>
              <<hist[v][f], hist'[v][f]>> \notin Forbidden]_vars

\* C6: in every store and in the cache file a page that is not FAILED has
\* retry_count <= max_retries, and a FAILED page has retry_count = max_retries.
C6_RetryBound ==
    \A i \in 1..3 : \A f \in Files :
        Has(ViewTables[i], f) =>
            LET page == Rec(ViewTables[i], f)
            IN IF page.sync_status = SYNC_FAILED
               THEN page.retry_count = MaxRetries
               ELSE page.retry_count <= MaxRetries

\* the record the last step's failed delivery was booked on
Booked == Rec(table[Engine], attempt.file)

C8_NoAttemptOnFailed == attempt.result # "none" => ~attempt.failed

\* C9: every page the last scan marked PENDING has retry_count 0 in the
\* watcher's store, whatever it had before.
C9_RetryResetOnRearm ==
    \A m \in scan.prev : Rec(table[Watcher], m[1]).retry_count = 0

\* C10: after a scan of a document every .rm file of its directory has a page
\* in the watcher's store that is not older than the file; each page the scan
\* found unknown or older is PENDING with the file's modification time.
C10_ScanMarksPending ==
    scan.doc # NoDoc =>
        \A u \in RmFiles(fsMtime, scan.doc) :
            LET f == <<scan.doc, u>>
            IN /\ Has(table[Watcher], f)
               /\ Rec(table[Watcher], f).mtime >= fsMtime[f]
               /\ f \in MarkedFiles(scan.prev) =>
                     /\ Rec(table[Watcher], f).sync_status = SYNC_PENDING
                     /\ Rec(table[Watcher], f).mtime = fsMtime[f]

\* the last scan re-armed a page that was UPLOADED and created another one
C10_Witness ==
    /\ \E m \in scan.prev : m[2] = SYNC_UPLOADED /\ fsMtime[m[1]] > 1
    /\ \E m \in scan.prev : m[2] = -1

\* C28: after a delivery that succeeded the page it was made for is UPLOADED
\* with retry_count 0 in the engine's store, and every UPLOADED page of the
\* watcher's store, of the engine's store and of the cache file has
\* retry_count 0.
C28_UploadedHasNoRetries ==
    /\ attempt.result = "ok" =>
          /\ Rec(table[Engine], attempt.file).sync_status = SYNC_UPLOADED
          /\ Rec(table[Engine], attempt.file).retry_count = 0
    /\ \A i \in 1..3 : \A d \in 1..Len(ViewTables[i]) :
          \A p \in 1..Len(ViewTables[i][d].pages) :
             LET page == ViewTables[i][d].pages[p]
             IN page.sync_status = SYNC_UPLOADED => page.retry_count = 0

\* a page that had failed before was delivered
C28_Witness ==
    /\ attempt.result = "ok" /\ attempt.retry > 0
    /\ Rec(table[Engine], attempt.file).sync_status = SYNC_UPLOADED

C33_DeliveredOncePerVersion ==
    [][(pc[Engine] = "batch" /\ pidx' = pidx + 1 /\ attempt'.result # "none") =>
          hist[Engine][attempt'.file] # SYNC_UPLOADED]_vars

\* C34: a page that is PENDING in the watcher's store, the store being saved
\* (not dirty), and that the engine's store does not hold, is in the cache
\* file, where the engine's next cache_reload finds it.  (The watcher writes
\* the file again only after a further event, so a page this fails for is
\* never loaded by the engine while no content file changes.)
C34_SavedPageStaysInFile ==
    \A f \in Files :
        (/\ StatusIn(table[Watcher], f) = SYNC_PENDING
         /\ ~dirty[Watcher]
         /\ ~Has(table[Engine], f)) => Has(FileTable(inodes, realIno), f)

(***************************************************************************)
(* The engine's cycle on a store in which two documents own a page with    *)
(* the same page id (SpecTwoDocs).  A page id is unique within its         *)
(* document only; the watcher files every page under its document.         *)
(***************************************************************************)
\* the status and retry_count a page of the initial cache file may have
InitStates == {<<SYNC_PENDING, 0>>, <<SYNC_UPLOADED, 0>>, <<SYNC_FAILED, MaxRetries>>,
               <<SYNC_SKIPPED, 0>>}

\* document A and document B, each with its page "p1", in either bucket order
TwoDocTables ==
    LET doc(id, st) == [doc_id |-> id, pages |-> <<InitPage(st[1], st[2])>>]
    IN {<<doc(ids[1], sa), doc(ids[2], sb)>> :
           ids \in {<<DocA, DocB>>, <<DocB, DocA>>}, sa \in InitStates, sb \in InitStates}

InitTwoDocs == \E t0 \in TwoDocTables : InitWith(t0)

NextTwoDocs ==
    \/ EngineCycleStart
    \/ EngineHandle
    \/ EngineCycleEnd

SpecTwoDocs == InitTwoDocs /\ [][NextTwoDocs]_vars

\* C11: every status change the engine makes in its cycle is made to a page
\* that is PENDING in the engine's store when the change is made; so the
\* engine moves no page out of SKIPPED (nor out of UPLOADED or FAILED).
C11_EngineChangesPendingOnly ==
    (call.op = "handle" /\ call.changed # <<>>) => call.was = SYNC_PENDING

\* C19: when the engine has handled every page of its batch, each page of the
\* batch whose path could not be resolved or did not pass the filter is
\* SKIPPED in the engine's store, and no delivery was attempted for it in the
\* cycle.
C19_UnresolvedEndsSkipped ==
    (pc[Engine] = "batch" /\ pidx > Len(pending) /\ call.op = "handle") =>
        \A f \in call.skipped :
            /\ StatusIn(table[Engine], f) = SYNC_SKIPPED
            /\ f \notin call.delivered

\* C35: the record whose status and retry_count the engine sets when it
\* handles an entry of its batch is the record that entry points to: the page
\* of that uuid in the document that owns the entry.
C35_UpdateHitsBatchEntry ==
    (call.op = "handle" /\ call.changed # <<>>) => call.changed = call.of

\* the table with status and retry_count of the record at loc replaced
WithVerdict(tbl, loc, status, retry_count) ==
    [tbl EXCEPT ![loc[1]].pages[loc[2]].sync_status = status,
                ![loc[1]].pages[loc[2]].retry_count = retry_count]

\* C32: a failed delivery changes nothing in the engine's store but status and
\* retry_count of the page it was made for: the count grows by one and the
\* page is FAILED when the count has reached max_retries, PENDING otherwise;
\* the engine stays in its batch and goes on with the next entry.
C32_FailureIsLocal ==
    [][(pc[Engine] = "batch" /\ pidx' = pidx + 1 /\ attempt'.result = "fail") =>
          LET loc == Locate(table[Engine], attempt'.file)
              count == PageAt(table[Engine], loc).retry_count + 1
          IN /\ pc'[Engine] = "batch"
             /\ table'[Engine] =
                   WithVerdict(table[Engine], loc,
                               IF count >= MaxRetries THEN SYNC_FAILED ELSE SYNC_PENDING,
                               count)]_vars

(***************************************************************************)
(* The cache file protocol step by step (SpecIO): cache_save and           *)
(* cache_reload run one library call at a time, the calls of the watcher   *)
(* and of the engine interleave, and fopen, fclose and rename may fail.    *)
(* Both processes build the same temp path "<path>.tmp".                   *)
(***************************************************************************)
\* the history variables of Spec, which SpecIO leaves alone
lifeVars == <<pending, pidx, processed, scan, attempt, hist, failedAt, call, stop>>

\* the inodes a path or an open FILE* keeps alive
Live(real, temp, fds) == ({real, temp} \cup {fds[p] : p \in Procs}) \ {0}

\* the file system drops the content of an inode nothing refers to
Reclaim(cont, live, empty) == [i \in Inodes |-> IF i \in live THEN cont[i] ELSE empty]

\* the inode a newly created file gets
FreeIno(live) == CHOOSE i \in Inodes \ live : \A j \in Inodes \ live : i <= j

\* write(2) of data at offset off (counted in items) into a file content
WriteAt(content, off, data) ==
    LET n == IF Len(content) > off + Len(data) THEN Len(content) ELSE off + Len(data)
    IN [i \in 1..n |-> IF i > off /\ i <= off + Len(data) THEN data[i - off]
                       ELSE IF i <= Len(content) THEN content[i] ELSE Hole]

\* how many of n buffered items may reach the file before the rest does
FlushPoints(n) == {k \in 0..n : k < n /\ k <= MaxEarlyFlush}

\* In SpecIO every page is under the shared path and its delivery succeeds
IoOutcomes == {"ok"}

\* In SpecIO the user creates the pages of document A
IoEditTimes(f) == IF f[1] = DocA THEN {1} ELSE {}

IoUserEdit ==
    \E f \in Files : \E m \in IoEditTimes(f) :
        /\ m > fsMtime[f]
        /\ fsMtime' = [fsMtime EXCEPT ![f] = m]
        /\ UNCHANGED <<table, dirty, inodes, realIno, pc, ioFailures>>
        /\ UNCHANGED ioVars
        /\ UNCHANGED lifeVars

\* process_metadata_change or a direct .rm change, up to the call of cache_save
IoWatcherEvent ==
    \E doc_id \in DocIds, always_save \in BOOLEAN :
    \E names \in Orders(RmFiles(fsMtime, doc_id)) :
    LET r == scan_document_pages(table[Watcher], fsMtime, doc_id, names)
    IN
    /\ pc[Watcher] = "idle"
    /\ table' = [table EXCEPT ![Watcher] = r.table]
    /\ dirty' = [dirty EXCEPT ![Watcher] = dirty[Watcher] \/ r.updated > 0]
    /\ pc' = [pc EXCEPT ![Watcher] =
                 IF always_save \/ r.updated > 0 THEN "save" ELSE "idle"]
    /\ saveLog' = [saveLog EXCEPT ![Watcher] = NoSave]
    /\ UNCHANGED <<fsMtime, inodes, realIno, ioFailures, tempIno, fd, lock, wbuf,
                   woff, intended, lastRead, commit>>
    /\ UNCHANGED lifeVars

\* a variant of the first test of cache_save that never returns early
SaveSkippedNever(is_dirty) == FALSE

\* the first test of cache_save: a store that is not dirty is not written
SaveSkipped(is_dirty) == ~is_dirty

\* cache_save up to fopen(temp_path, "wb"), which creates or truncates the file
SaveOpen(p) ==
    /\ pc[p] = "save"
    /\ \/ /\ SaveSkipped(dirty[p])
          /\ pc' = [pc EXCEPT ![p] = "idle"]
          /\ saveLog' = [saveLog EXCEPT ![p] = [NoSave EXCEPT !.ret = "ok"]]
          /\ UNCHANGED <<inodes, tempIno, fd, woff, intended, ioFailures>>
       \/ /\ ~SaveSkipped(dirty[p])
          /\ ioFailures < MaxIoFailures
          /\ pc' = [pc EXCEPT ![p] = "idle"]
          /\ saveLog' = [saveLog EXCEPT ![p] = [NoSave EXCEPT !.err = TRUE, !.ret = "error"]]
          /\ ioFailures' = ioFailures + 1
          /\ UNCHANGED <<inodes, tempIno, fd, woff, intended>>
       \/ /\ ~SaveSkipped(dirty[p])
          /\ LET n == IF tempIno = 0 THEN FreeIno(Live(realIno, tempIno, fd))
                      ELSE tempIno
             IN /\ tempIno' = n
                /\ inodes' = [inodes EXCEPT ![n] = <<>>]
                /\ intended' = [intended EXCEPT ![n] =
                                   (IF tempIno = 0 THEN {} ELSE @) \cup {Encode(table[p])}]
                /\ fd' = [fd EXCEPT ![p] = n]
                /\ saveLog' = [saveLog EXCEPT ![p] = [NoSave EXCEPT !.ino = n, !.wrote = TRUE]]
          /\ woff' = [woff EXCEPT ![p] = 0]
          /\ pc' = [pc EXCEPT ![p] = "s_lock"]
          /\ UNCHANGED ioFailures
    /\ UNCHANGED <<fsMtime, table, dirty, realIno, lock, wbuf, lastRead, commit>>
    /\ UNCHANGED lifeVars

\* flock(fd, LOCK_EX) returns once no other open file holds a lock on the inode
SaveLock(p) ==
    /\ pc[p] = "s_lock"
    /\ \A q \in Procs \ {p} : ~(fd[q] = fd[p] /\ lock[q] # "UN")
    /\ lock' = [lock EXCEPT ![p] = "EX"]
    /\ pc' = [pc EXCEPT ![p] = "s_write"]
    /\ UNCHANGED <<fsMtime, table, dirty, inodes, realIno, tempIno, fd, wbuf, woff,
                   ioFailures, intended, lastRead, saveLog, commit>>
    /\ UNCHANGED lifeVars

\* the fwrite calls: the items go to the buffer of the FILE*, which may write
\* its first k items to the file when it fills
SaveWrite(p) ==
    LET data == Encode(table[p])
    IN
    /\ pc[p] = "s_write"
    /\ \E k \in FlushPoints(Len(data)) :
          /\ inodes' = [inodes EXCEPT ![fd[p]] = WriteAt(@, 0, SubSeq(data, 1, k))]
          /\ wbuf' = [wbuf EXCEPT ![p] = SubSeq(data, k + 1, Len(data))]
          /\ woff' = [woff EXCEPT ![p] = k]
    /\ pc' = [pc EXCEPT ![p] = "s_unlock"]
    /\ UNCHANGED <<fsMtime, table, dirty, realIno, tempIno, fd, lock, ioFailures,
                   intended, lastRead, saveLog, commit>>
    /\ UNCHANGED lifeVars

\* a variant of the step that leaves the lock in place
SaveUnlockNot(p) ==
    /\ pc[p] = "s_unlock"
    /\ pc' = [pc EXCEPT ![p] = "s_close"]
    /\ UNCHANGED <<fsMtime, table, dirty, inodes, realIno, tempIno, fd, lock, wbuf, woff,
                   ioFailures, intended, lastRead, saveLog, commit>>
    /\ UNCHANGED lifeVars

\* flock(fd, LOCK_UN)
SaveUnlock(p) ==
    /\ pc[p] = "s_unlock"
    /\ lock' = [lock EXCEPT ![p] = "UN"]
    /\ pc' = [pc EXCEPT ![p] = "s_close"]
    /\ UNCHANGED <<fsMtime, table, dirty, inodes, realIno, tempIno, fd, wbuf, woff,
                   ioFailures, intended, lastRead, saveLog, commit>>
    /\ UNCHANGED lifeVars

\* fclose(f): the buffer is written at the offset of the FILE*, all of it or,
\* on a full disk, the first j items; the result is not looked at
SaveClose(p) ==
    LET x == fd[p]
        fds == [fd EXCEPT ![p] = 0]
        live == Live(realIno, tempIno, fds)
    IN
    /\ pc[p] = "s_close"
    /\ \/ /\ inodes' = Reclaim([inodes EXCEPT ![x] = WriteAt(@, woff[p], wbuf[p])],
                               live, <<>>)
          /\ UNCHANGED <<saveLog, ioFailures>>
       \/ \E j \in FlushPoints(Len(wbuf[p])) :
          /\ ioFailures < MaxIoFailures
          /\ inodes' = Reclaim([inodes EXCEPT ![x] =
                                   WriteAt(@, woff[p], SubSeq(wbuf[p], 1, j))],
                               live, <<>>)
          /\ saveLog' = [saveLog EXCEPT ![p].err = TRUE]
          /\ ioFailures' = ioFailures + 1
    /\ intended' = Reclaim(intended, live, {})
    /\ fd' = fds
    /\ wbuf' = [wbuf EXCEPT ![p] = <<>>]
    /\ woff' = [woff EXCEPT ![p] = 0]
    /\ pc' = [pc EXCEPT ![p] = "s_rename"]
    /\ UNCHANGED <<fsMtime, table, dirty, realIno, tempIno, lock, lastRead, commit>>
    /\ UNCHANGED lifeVars

\* rename(temp_path, cache->path); on failure unlink(temp_path) and return -1
SaveRename(p) ==
    /\ pc[p] = "s_rename"
    /\ \/ /\ tempIno # 0
          /\ realIno' = tempIno
          /\ tempIno' = 0
          /\ inodes' = Reclaim(inodes, Live(tempIno, 0, fd), <<>>)
          /\ intended' = Reclaim(intended, Live(tempIno, 0, fd), {})
          /\ dirty' = [dirty EXCEPT ![p] = FALSE]
          /\ saveLog' = [saveLog EXCEPT ![p] = [@ EXCEPT !.ino = 0, !.ret = "ok"]]
          /\ commit' = [commit EXCEPT !.some = TRUE, !.last = table[p]]
          /\ UNCHANGED ioFailures
       \/ /\ tempIno = 0 \/ ioFailures < MaxIoFailures
          /\ tempIno' = 0
          /\ inodes' = Reclaim(inodes, Live(realIno, 0, fd), <<>>)
          /\ intended' = Reclaim(intended, Live(realIno, 0, fd), {})
          /\ saveLog' = [saveLog EXCEPT ![p] = [@ EXCEPT !.ino = 0, !.err = TRUE, !.ret = "error"]]
          /\ ioFailures' = ioFailures + (IF tempIno # 0 THEN 1 ELSE 0)
          /\ UNCHANGED <<realIno, dirty, commit>>
    /\ pc' = [pc EXCEPT ![p] = "idle"]
    /\ UNCHANGED <<fsMtime, table, fd, lock, wbuf, woff, lastRead>>
    /\ UNCHANGED lifeVars

\* process_pending_pages calls cache_reload: the table is cleared, then
\* fopen(cache->path, "rb")
ReloadOpen ==
    /\ pc[Engine] = "idle"
    /\ table' = [table EXCEPT ![Engine] = <<>>]
    /\ saveLog' = [saveLog EXCEPT ![Engine] = NoSave]
    /\ IF realIno = 0
       THEN /\ dirty' = [dirty EXCEPT ![Engine] = FALSE]
            /\ pc' = [pc EXCEPT ![Engine] = "batch"]
            /\ lastRead' = [done |-> TRUE, whole |-> TRUE]
            /\ commit' = [commit EXCEPT !.seenSome = FALSE, !.seen = <<>>,
                                        !.read = TRUE,
                                        !.same = ~commit.some \/ SameStore(<<>>, commit.last)]
            /\ UNCHANGED fd
       ELSE /\ fd' = [fd EXCEPT ![Engine] = realIno]
            /\ pc' = [pc EXCEPT ![Engine] = "r_lock"]
            /\ commit' = [commit EXCEPT !.seenSome = commit.some, !.seen = commit.last]
            /\ UNCHANGED <<dirty, lastRead>>
    /\ UNCHANGED <<fsMtime, inodes, realIno, tempIno, lock, wbuf, woff, ioFailures,
                   intended>>
    /\ UNCHANGED lifeVars

\* flock(fd, LOCK_SH) returns once no other open file holds LOCK_EX on the inode
ReloadLock ==
    /\ pc[Engine] = "r_lock"
    /\ \A q \in Procs \ {Engine} : ~(fd[q] = fd[Engine] /\ lock[q] = "EX")
    /\ lock' = [lock EXCEPT ![Engine] = "SH"]
    /\ pc' = [pc EXCEPT ![Engine] = "r_read"]
    /\ UNCHANGED <<fsMtime, table, dirty, inodes, realIno, tempIno, fd, wbuf, woff,
                   ioFailures, intended, lastRead, saveLog, commit>>
    /\ UNCHANGED lifeVars

\* a variant of the last step of cache_reload that keeps the file open and locked
ReloadReadHolding ==
    LET x == fd[Engine]
        r == ReloadResult(FALSE, inodes[x], dirty[Engine])
    IN
    /\ pc[Engine] = "r_read"
    /\ lock[Engine] = "SH"
    /\ table' = [table EXCEPT ![Engine] = r.table]
    /\ dirty' = [dirty EXCEPT ![Engine] = r.dirty]
    /\ lastRead' = [done |-> TRUE, whole |-> inodes[x] \in intended[x]]
    /\ commit' = [commit EXCEPT !.seenSome = FALSE, !.seen = <<>>, !.read = TRUE,
                                !.same = ~commit.seenSome \/ SameStore(r.table, commit.seen)]
    /\ pc' = [pc EXCEPT ![Engine] = "batch"]
    /\ UNCHANGED <<fsMtime, inodes, realIno, tempIno, fd, lock, wbuf, woff, ioFailures,
                   intended, saveLog>>
    /\ UNCHANGED lifeVars

\* the fread calls, flock(fd, LOCK_UN) and fclose(f)
ReloadRead ==
    LET x == fd[Engine]
        r == ReloadResult(FALSE, inodes[x], dirty[Engine])
        fds == [fd EXCEPT ![Engine] = 0]
        live == Live(realIno, tempIno, fds)
    IN
    /\ pc[Engine] = "r_read"
    /\ table' = [table EXCEPT ![Engine] = r.table]
    /\ dirty' = [dirty EXCEPT ![Engine] = r.dirty]
    /\ lastRead' = [done |-> TRUE, whole |-> inodes[x] \in intended[x]]
    /\ commit' = [commit EXCEPT !.seenSome = FALSE, !.seen = <<>>, !.read = TRUE,
                                !.same = ~commit.seenSome \/ SameStore(r.table, commit.seen)]
    /\ lock' = [lock EXCEPT ![Engine] = "UN"]
    /\ fd' = fds
    /\ inodes' = Reclaim(inodes, live, <<>>)
    /\ intended' = Reclaim(intended, live, {})
    /\ pc' = [pc EXCEPT ![Engine] = "batch"]
    /\ UNCHANGED <<fsMtime, realIno, tempIno, wbuf, woff, ioFailures, saveLog>>
    /\ UNCHANGED lifeVars

\* the loop of process_pending_pages over pend[i..], outs[i] being what the
\* collaborators answer for pend[i]
RECURSIVE RunBatch(_, _, _, _, _)
RunBatch(tbl, pend, outs, i, acc) ==
    IF i > Len(pend) THEN acc
    ELSE LET r == HandlePage(acc.table, pend[i], outs[i], acc.processed)
         IN RunBatch(tbl, pend, outs, i + 1,
                     [table |-> r.table, processed |-> r.processed,
                      touched |-> acc.touched \/ r.file # <<>>])

\* process_pending_pages from cache_get_pending_pages to the call of cache_save
IoEngineBatch ==
    LET pend == cache_get_pending_pages(table[Engine], MAX_BATCH_SIZE)
    IN
    /\ pc[Engine] = "batch"
    /\ \E outs \in [1..Len(pend) -> IoOutcomes] :
       LET r == RunBatch(table[Engine], pend, outs, 1,
                         [table |-> table[Engine], processed |-> 0, touched |-> FALSE])
           is_dirty == dirty[Engine] \/ r.touched
       IN /\ table' = [table EXCEPT ![Engine] = r.table]
          /\ dirty' = [dirty EXCEPT ![Engine] = is_dirty]
          /\ pc' = [pc EXCEPT ![Engine] =
                       IF r.processed > 0 \/ is_dirty THEN "save" ELSE "idle"]
    /\ UNCHANGED <<fsMtime, inodes, realIno, ioFailures>>
    /\ UNCHANGED ioVars
    /\ UNCHANGED lifeVars

InitIO == InitWith(<<>>)

NextIO ==
    \/ IoUserEdit
    \/ IoWatcherEvent
    \/ \E p \in Procs : SaveOpen(p)
    \/ \E p \in Procs : SaveLock(p)
    \/ \E p \in Procs : SaveWrite(p)
    \/ \E p \in Procs : SaveUnlock(p)
    \/ \E p \in Procs : SaveClose(p)
    \/ \E p \in Procs : SaveRename(p)
    \/ ReloadOpen
    \/ ReloadLock
    \/ ReloadRead
    \/ IoEngineBatch

SpecIO == InitIO /\ [][NextIO]_vars

(***************************************************************************)
(* Properties of the cache file protocol, checked under SpecIO             *)
(***************************************************************************)
\* C1: with the steps of the saves and reloads of the two processes
\* interleaved in any order, the content a cache_reload reads is the complete
\* output of one cache_save; stated for the runs in which no call of the file
\* system has failed.
C1_ReloadReadsWholeSave ==
    (lastRead.done /\ ioFailures = 0) => lastRead.whole

\* C2: no two processes are at the same time between the fopen and the rename
\* of cache_save with the same temp file.
C2_TempFileNotShared ==
    \A p, q \in Procs :
        (p # q /\ saveLog[p].ino # 0) => saveLog[p].ino # saveLog[q].ino

\* C3: no step of a cache_save in which an I/O call has failed changes what
\* the cache path holds.
C3_FailedSaveKeepsFile ==
    [][\A p \in Procs :
          (pc[p] # pc'[p] /\ saveLog'[p].err) =>
              /\ realIno' = realIno
              /\ realIno # 0 => inodes'[realIno] = inodes[realIno]]_vars

\* C4: a cache_save in which an I/O call has failed returns an error and
\* leaves the dirty flag of its store set.
C4_FailureReported ==
    \A p \in Procs :
        (saveLog[p].ret # "none" /\ saveLog[p].err) =>
            (saveLog[p].ret = "error" /\ dirty[p])

\* C20: the table a cache_reload loads holds the documents and pages of the
\* table written by the cache_save whose rename was the last to complete
\* before the fopen of the reload; stated for the runs in which no call of
\* the file system has failed.
C20_ReloadSeesLastRename ==
    (commit.read /\ ioFailures = 0) => commit.same

\* C21: when the cache_save of the watcher and the cache_save of the engine
\* have both written the temp file and both have returned, the cache path
\* holds exactly the encoding of the store of one of the two; stated for the
\* runs in which no call of the file system has failed.
C21_OneWholeWriter ==
    ((\A p \in Procs : saveLog[p].wrote /\ saveLog[p].ret # "none") /\ ioFailures = 0)
        => /\ realIno # 0
           /\ inodes[realIno] \in {Encode(table[p]) : p \in Procs}

\* C30: a process holds LOCK_SH only between the flock and the end of the
\* reads of cache_reload, and LOCK_EX only between the flock and the
\* flock(LOCK_UN) of cache_save, which comes before the fclose and the rename;
\* a lock it holds is on the one file it has open; it holds none while it
\* scans, handles its batch or waits.
C30_LocksOnlyDuringIo ==
    \A p \in Procs :
        /\ lock[p] = "SH" => (p = Engine /\ pc[p] = "r_read")
        /\ lock[p] = "EX" => pc[p] \in {"s_write", "s_unlock"}
        /\ lock[p] # "UN" => fd[p] # 0
        /\ pc[p] \in {"idle", "batch", "save", "s_close", "s_rename"} => lock[p] = "UN"

\* the engine reads the cache file under LOCK_SH while the watcher writes its
\* temp file under LOCK_EX
C30_Witness ==
    /\ lock[Engine] = "SH" /\ pc[Engine] = "r_read"
    /\ lock[Watcher] = "EX" /\ pc[Watcher] = "s_unlock"

\* C29: when the cache_save that ends a cycle of the engine has renamed its
\* file and returns 0, the cache path holds the engine's store, every status
\* update of the cycle included, and the store is not dirty; stated for the
\* runs in which no call of the file system has failed.
C29_SavedCycleIsOnFile ==
    [][(pc[Engine] = "s_rename" /\ pc'[Engine] = "idle"
        /\ saveLog'[Engine].ret = "ok" /\ ioFailures' = 0) =>
          /\ ~dirty'[Engine]
          /\ realIno' # 0
          /\ inodes'[realIno'] = Encode(table[Engine])]_vars

\* the steps of cache_save that follow its first test
SaveSteps == {"s_lock", "s_write", "s_unlock", "s_close", "s_rename"}

\* C22: what the cache path holds changes only in a step of a cache_save
\* called on a dirty store; the scan of the watcher (upserts), the batch of
\* the engine (pending pages, status updates) and cache_reload leave it as it
\* is, and a cache_save on a store that is not dirty returns at once, with no
\* file created, truncated or renamed.
C22_FileChangesOnlyInDirtySave ==
    [][/\ (realIno' # realIno \/ (realIno # 0 /\ inodes'[realIno] # inodes[realIno]))
            => \E p \in Procs : pc[p] \in SaveSteps /\ pc'[p] # pc[p] /\ dirty[p]
       /\ \A p \in Procs :
            (pc[p] = "save" /\ pc'[p] # pc[p] /\ ~dirty[p])
                => /\ pc'[p] = "idle"
                   /\ saveLog'[p].ret = "ok"
                   /\ UNCHANGED <<inodes, realIno, tempIno, fd>>]_vars

\* the watcher has called cache_save on a store that is not dirty while the
\* cache file exists, and the engine has completed a cache_reload
C22_Witness ==
    /\ saveLog[Watcher].ret = "ok" /\ ~saveLog[Watcher].wrote
    /\ realIno # 0
    /\ lastRead.done

(***************************************************************************)
(* The calls of the cache store made by one process on its own store       *)
(* (SpecStore): cache_add_or_update_page, cache_update_page_status,        *)
(* cache_get_pending_pages, cache_save and cache_reload, in any order.     *)
(* The process is the engine; no other process touches the cache file.     *)
(***************************************************************************)
\* the most calls of the store in a run of SpecStore
MaxCalls == 2
\* the largest max_pages passed to cache_get_pending_pages
MaxLimit == 3

\* a page number of MAX_PAGE_NUM_LEN - 1 characters, the longest a page holds
LongNum == <<49, 50, 51, 52, 53, 54, 55>>

\* page_num, sync_status and retry_count of the pages "p1" of the stores
PickP1 == {<<<<48>>, SYNC_PENDING, 0>>, <<<<>>, SYNC_UPLOADED, 0>>,
           <<LongNum, SYNC_FAILED, 255>>, <<<<48>>, SYNC_SKIPPED, 0>>}
\* and of the pages "p2"
PickP2 == {<<<<>>, SYNC_PENDING, 1>>, <<<<48>>, SYNC_UPLOADED, 0>>}

StorePage(uuid, pick) ==
    [uuid |-> uuid, page_num |-> pick[1], mtime |-> 1,
     sync_status |-> pick[2], retry_count |-> pick[3]]

\* the page lists of document A: no page, one page, or two in either order
PageListsA ==
    {<<>>} \cup {<<StorePage("p1", x)>> : x \in PickP1}
           \cup {<<StorePage("p2", y)>> : y \in PickP2}
           \cup {<<StorePage("p1", x), StorePage("p2", y)>> : x \in PickP1, y \in PickP2}
           \cup {<<StorePage("p2", y), StorePage("p1", x)>> : x \in PickP1, y \in PickP2}

\* the page lists of document B
PageListsB ==
    {<<>>, <<StorePage("p1", <<<<48>>, SYNC_PENDING, 0>>)>>,
     <<StorePage("p1", <<<<>>, SYNC_UPLOADED, 0>>),
       StorePage("p2", <<<<>>, SYNC_PENDING, 1>>)>>}

\* the in-memory stores a process may have built: no document, one, or both
\* in either order of their bucket
StoreTables ==
    {<<>>} \cup {<<[doc_id |-> DocA, pages |-> a]>> : a \in PageListsA}
           \cup {<<[doc_id |-> DocB, pages |-> b]>> : b \in PageListsB}
           \cup {<<[doc_id |-> DocA, pages |-> a], [doc_id |-> DocB, pages |-> b]>> :
                    a \in PageListsA, b \in PageListsB}
           \cup {<<[doc_id |-> DocB, pages |-> b], [doc_id |-> DocA, pages |-> a]>> :
                    a \in PageListsA, b \in PageListsB}

\* the variables no call of the store touches
storeVars == <<fsMtime, tempIno, pc, fd, lock, wbuf, woff, pidx, processed, scan,
               attempt, hist, failedAt, ioFailures, intended, lastRead, saveLog, commit,
               stop>>

\* the process holds a store it has built and not saved; there is no cache file
InitHolding(t) ==
    /\ table = [p \in Procs |-> IF p = Engine THEN t ELSE <<>>]
    /\ dirty = [p \in Procs |-> p = Engine]
    /\ inodes = [i \in Inodes |-> <<>>]
    /\ realIno = 0
    /\ tempIno = 0
    /\ fsMtime = [f \in Files |-> 0]
    /\ pc = [p \in Procs |-> "idle"]
    /\ fd = [p \in Procs |-> 0]
    /\ lock = [p \in Procs |-> "UN"]
    /\ wbuf = [p \in Procs |-> <<>>]
    /\ woff = [p \in Procs |-> 0]
    /\ pending = <<>>
    /\ pidx = 1
    /\ processed = 0
    /\ scan = NoScan
    /\ attempt = NoAttempt
    /\ hist = [v \in Views |-> [f \in Files |-> -1]]
    /\ failedAt = {}
    /\ ioFailures = 0
    /\ intended = [i \in Inodes |-> {}]
    /\ lastRead = NoRead
    /\ saveLog = [p \in Procs |-> NoSave]
    /\ commit = NoCommit
    /\ stop = NoStop
    /\ call = [op |-> "none", n |-> 0]

InitStore == \E t \in StoreTables : InitHolding(t)

\* the arguments of the calls: page_num, mtime and status of an upsert
UpsertArgs == {<<<<48>>, 2, SYNC_PENDING>>, <<LongNum \o <<56, 57>>, 1, SYNC_UPLOADED>>}
\* status and retry_count of a set_page_status
StatusArgs == {<<SYNC_FAILED, 3>>, <<SYNC_PENDING, 1>>}

\* cache_add_or_update_page(cache, doc_id, page_uuid, page_num, mtime, status)
StoreUpsert ==
    \E doc_id \in DocIds, page_uuid \in PageIds, a \in UpsertArgs :
    LET args == <<doc_id, page_uuid, a[1], a[2], a[3]>>
    IN
    /\ call.n < MaxCalls
    /\ table' = [table EXCEPT ![Engine] =
                    cache_add_or_update_page(@, doc_id, page_uuid, a[1], a[2], a[3])]
    /\ dirty' = [dirty EXCEPT ![Engine] = TRUE]
    /\ call' = [op |-> "upsert", n |-> call.n + 1, args |-> args,
                repeat |-> call.op = "upsert" /\ call.args = args,
                before |-> table[Engine], wasDirty |-> dirty[Engine]]
    /\ UNCHANGED <<inodes, realIno, pending>>
    /\ UNCHANGED storeVars

\* cache_update_page_status(cache, doc_id, page_uuid, status, retry_count)
StoreSetStatus ==
    \E doc_id \in DocIds, page_uuid \in PageIds, a \in StatusArgs :
    LET r == cache_update_page_status(table[Engine], doc_id, page_uuid, a[1], a[2])
    IN
    /\ call.n < MaxCalls
    /\ table' = [table EXCEPT ![Engine] = r.table]
    /\ dirty' = [dirty EXCEPT ![Engine] = @ \/ r.rc = 0]
    /\ call' = [op |-> "status", n |-> call.n + 1,
                args |-> <<doc_id, page_uuid, a[1], a[2]>>, rc |-> r.rc,
                before |-> table[Engine], wasDirty |-> dirty[Engine]]
    /\ UNCHANGED <<inodes, realIno, pending>>
    /\ UNCHANGED storeVars

\* cache_get_pending_pages(cache, max_pages)
StorePending ==
    \E max_pages \in 1..MaxLimit :
    /\ call.n < MaxCalls
    /\ pending' = cache_get_pending_pages(table[Engine], max_pages)
    /\ call' = [op |-> "pending", n |-> call.n + 1, limit |-> max_pages]
    /\ UNCHANGED <<table, dirty, inodes, realIno>>
    /\ UNCHANGED storeVars

\* cache_save(cache)
StoreSave ==
    \E ok \in SaveOutcomes :
    LET s == SaveWhole(table[Engine], dirty[Engine], ok)
    IN
    /\ call.n < MaxCalls
    /\ inodes' = s.inodes
    /\ realIno' = s.realIno
    /\ dirty' = [dirty EXCEPT ![Engine] = s.dirty]
    /\ call' = [op |-> "save", n |-> call.n + 1, rc |-> s.rc,
                before |-> table[Engine], wasDirty |-> dirty[Engine]]
    /\ UNCHANGED <<table, pending>>
    /\ UNCHANGED storeVars

\* cache_reload(cache)
StoreReload ==
    LET r == ReloadResult(realIno = 0, IF realIno = 0 THEN <<>> ELSE inodes[realIno],
                          dirty[Engine])
        \* the call before was a cache_save of a dirty store that completed
        saved == call.op = "save" /\ call.wasDirty /\ call.rc = 0
    IN
    /\ call.n < MaxCalls
    /\ table' = [table EXCEPT ![Engine] = r.table]
    /\ dirty' = [dirty EXCEPT ![Engine] = r.dirty]
    /\ call' = [op |-> "reload", n |-> call.n + 1, rc |-> r.rc, afterSave |-> saved,
                before |-> IF saved THEN call.before ELSE table[Engine],
                wasDirty |-> dirty[Engine]]
    /\ UNCHANGED <<inodes, realIno, pending>>
    /\ UNCHANGED storeVars

NextStore ==
    \/ StoreUpsert
    \/ StoreSetStatus
    \/ StorePending
    \/ StoreSave
    \/ StoreReload

SpecStore == InitStore /\ [][NextStore]_vars

(***************************************************************************)
(* Properties of the calls of the store, checked under SpecStore           *)
(***************************************************************************)
\* every page record of a table, as <<document index, page index>>
AllPtrs(tbl) == UNION {{<<d, i>> : i \in 1..Len(tbl[d].pages)} : d \in 1..Len(tbl)}

PendingPtrs(tbl) == {ptr \in AllPtrs(tbl) : PageAt(tbl, ptr).sync_status = SYNC_PENDING}

\* the table holds a document doc_id that owns a page page_uuid
InStore(tbl, doc_id, page_uuid) ==
    \E ptr \in AllPtrs(tbl) :
        tbl[ptr[1]].doc_id = doc_id /\ PageAt(tbl, ptr).uuid = page_uuid

Min(a, b) == IF a < b THEN a ELSE b

\* C12: a cache_reload that follows a completed cache_save of a dirty store by
\* the same process succeeds and leaves a store that is not dirty and holds the
\* documents the store held before the save, each with the same pages
\* (page_num, mtime, sync_status, retry_count) in the same order.
C12_ReloadAfterSave ==
    (call.op = "reload" /\ call.afterSave) =>
        /\ call.rc = 0
        /\ ~dirty[Engine]
        /\ SameStore(table[Engine], call.before)

\* a store of two documents, one page of it FAILED with retry_count 255 and a
\* page number of 7 characters, was saved and reloaded
C12_Witness ==
    /\ call.op = "reload" /\ call.afterSave
    /\ Len(call.before) = 2
    /\ \E ptr \in AllPtrs(call.before) :
          /\ PageAt(call.before, ptr).retry_count = 255
          /\ PageAt(call.before, ptr).page_num = LongNum

\* C16: a cache_add_or_update_page with the arguments of the call before it
\* leaves the table as that call left it: no document or page is added and no
\* field of a page changes.
C16_UpsertIdempotent ==
    (call.op = "upsert" /\ call.repeat) =>
        (table[Engine] = call.before /\ dirty[Engine])

\* the same upsert was made twice, the first created document and page, and
\* the page number passed is longer than a page holds
C16_Witness ==
    /\ call.op = "upsert" /\ call.repeat
    /\ Len(call.args[3]) > MAX_PAGE_NUM_LEN - 1
    /\ \E ptr \in AllPtrs(table[Engine]) :
          /\ table[Engine][ptr[1]].doc_id = call.args[1]
          /\ Len(table[Engine][ptr[1]].pages) = 1
          /\ PageAt(table[Engine], ptr).retry_count = 0
          /\ PageAt(table[Engine], ptr).uuid = call.args[2]

\* C17: cache_update_page_status for a document or page the store does not
\* hold returns -1 and leaves the table and the dirty flag as they were; for a
\* page the store holds it returns 0, sets sync_status and retry_count of that
\* page to the values given, changes nothing else and sets the dirty flag.
C17_SetStatus ==
    call.op = "status" =>
        IF ~InStore(call.before, call.args[1], call.args[2])
        THEN /\ call.rc = -1
             /\ table[Engine] = call.before
             /\ dirty[Engine] = call.wasDirty
        ELSE /\ call.rc = 0
             /\ dirty[Engine]
             /\ Len(table[Engine]) = Len(call.before)
             /\ \A d \in 1..Len(call.before) :
                   /\ table[Engine][d].doc_id = call.before[d].doc_id
                   /\ Len(table[Engine][d].pages) = Len(call.before[d].pages)
             /\ \A ptr \in AllPtrs(call.before) :
                   PageAt(table[Engine], ptr) =
                      IF /\ call.before[ptr[1]].doc_id = call.args[1]
                         /\ PageAt(call.before, ptr).uuid = call.args[2]
                      THEN [PageAt(call.before, ptr) EXCEPT
                               !.sync_status = call.args[3], !.retry_count = call.args[4]]
                      ELSE PageAt(call.before, ptr)

\* the call was made for a page that a saved store with documents does not hold
C17_Witness ==
    /\ call.op = "status"
    /\ call.rc = -1
    /\ ~call.wasDirty
    /\ Len(call.before) > 0

\* C18: cache_get_pending_pages(max_pages), max_pages >= 1, returns
\* min(max_pages, number of PENDING pages of the store) pages, no page twice,
\* every one of them PENDING.
C18_PendingPages ==
    call.op = "pending" =>
        /\ Len(pending) = Min(call.limit, Cardinality(PendingPtrs(table[Engine])))
        /\ \A k \in 1..Len(pending) : pending[k] \in PendingPtrs(table[Engine])
        /\ \A j, k \in 1..Len(pending) : j # k => pending[j] # pending[k]

\* the store holds more PENDING pages than the limit of 2, and pages that are
\* not PENDING
C18_Witness ==
    /\ call.op = "pending"
    /\ call.limit = 2
    /\ Cardinality(PendingPtrs(table[Engine])) >= 3
    /\ AllPtrs(table[Engine]) # PendingPtrs(table[Engine])
    /\ Len(pending) = 2

\* where the page page_uuid of document doc_id stands in a result of
\* cache_get_pending_pages, 0 when it is not in it
BatchPos(tbl, batch, doc_id, page_uuid) ==
    LET hits == {k \in 1..Len(batch) : /\ tbl[batch[k][1]].doc_id = doc_id
                                       /\ PageAt(tbl, batch[k]).uuid = page_uuid}
    IN IF hits = {} THEN 0 ELSE CHOOSE k \in hits : \A j \in hits : k <= j

\* C31: when cache_add_or_update_page has added a page B as PENDING to a
\* document, every PENDING page A the document held before (each was added
\* before B) comes before B in the result of cache_get_pending_pages; and
\* when A was the only PENDING page of the store, cache_get_pending_pages(1)
\* returns A.
C31_InsertionOrder ==
    (/\ call.op = "upsert"
     /\ call.args[5] = SYNC_PENDING
     /\ ~InStore(call.before, call.args[1], call.args[2])) =>
        LET tbl == table[Engine]
            batch == cache_get_pending_pages(tbl, MAX_BATCH_SIZE)
            one == cache_get_pending_pages(tbl, 1)
            older == {ptr \in PendingPtrs(call.before) :
                         call.before[ptr[1]].doc_id = call.args[1]}
        IN \A ptr \in older :
              LET a == PageAt(call.before, ptr).uuid
              IN /\ BatchPos(tbl, batch, call.args[1], a) > 0
                 /\ BatchPos(tbl, batch, call.args[1], a)
                       < BatchPos(tbl, batch, call.args[1], call.args[2])
                 /\ PendingPtrs(call.before) = {ptr} =>
                       BatchPos(tbl, one, call.args[1], a) = 1

(***************************************************************************)
(* The record codec from store to store (SpecCodec): a process saves the   *)
(* store it holds, the file may get damaged, a process opens it, adds or   *)
(* updates a page and saves again.                                         *)
(***************************************************************************)
\* the value a damaged length or signature field holds
Garbled(u) ==
    CASE u.t = "magic" -> U("magic", 0)
      [] u.t = "version" -> U("version", CACHE_VERSION + 1)
      [] u.t = "idlen" -> U("idlen", UUID_LEN - 1)
      [] u.t = "numlen" -> U("numlen", MAX_PAGE_NUM_LEN)
      [] OTHER -> u

\* the ways a file is damaged: "cut" keeps its first at items, "field" changes
\* the item at
Damages(content) ==
    {<<"cut", k>> : k \in 0..(Len(content) - 1)}
    \cup {<<"field", k>> : k \in {i \in 1..Len(content) : Garbled(content[i]) # content[i]}}

Damage(content, d) ==
    IF d[1] = "cut" THEN SubSeq(content, 1, d[2])
    ELSE [content EXCEPT ![d[2]] = Garbled(@)]

\* cache_save(cache): the save of the store held at first, or the save after
\* the open and the upsert
CodecSave ==
    \E ok \in SaveOutcomes :
    LET s == SaveWhole(table[Engine], dirty[Engine], ok)
    IN
    /\ call.op \in {"none", "upsert"}
    /\ inodes' = s.inodes
    /\ realIno' = s.realIno
    /\ dirty' = [dirty EXCEPT ![Engine] = s.dirty]
    /\ call' = [op |-> IF call.op = "none" THEN "save" ELSE "resave", n |-> call.n + 1,
                rc |-> s.rc, before |-> table[Engine],
                magicOnly |-> call.op = "upsert" /\ call.magicOnly]
    /\ UNCHANGED <<table, pending>>
    /\ UNCHANGED storeVars

\* the cache file is cut short or a field of it is changed
CodecDamage ==
    /\ call.op = "save"
    /\ realIno # 0
    /\ \E d \in Damages(inodes[realIno]) :
          /\ inodes' = [inodes EXCEPT ![realIno] = Damage(@, d)]
          /\ call' = [op |-> "damage", n |-> call.n + 1, how |-> d,
                      before |-> call.before]
    /\ UNCHANGED <<table, dirty, realIno, pending>>
    /\ UNCHANGED storeVars

\* cache_open(path) by a process started after the save
CodecOpen ==
    LET r == cache_open(realIno = 0, IF realIno = 0 THEN <<>> ELSE inodes[realIno])
    IN
    /\ call.op \in {"save", "damage"}
    /\ table' = [table EXCEPT ![Engine] = r.table]
    /\ dirty' = [dirty EXCEPT ![Engine] = r.dirty]
    /\ call' = [op |-> "open", n |-> call.n + 1, whole |-> call.op = "save",
                magicOnly |-> call.op = "damage" /\ call.how = <<"cut", 1>>,
                before |-> call.before]
    /\ UNCHANGED <<inodes, realIno, pending>>
    /\ UNCHANGED storeVars

\* cache_add_or_update_page on the store opened
CodecUpsert ==
    \E doc_id \in DocIds, page_uuid \in PageIds, a \in UpsertArgs :
    /\ call.op = "open"
    /\ table' = [table EXCEPT ![Engine] =
                    cache_add_or_update_page(@, doc_id, page_uuid, a[1], a[2], a[3])]
    /\ dirty' = [dirty EXCEPT ![Engine] = TRUE]
    /\ call' = [op |-> "upsert", n |-> call.n + 1, magicOnly |-> call.magicOnly]
    /\ UNCHANGED <<inodes, realIno, pending>>
    /\ UNCHANGED storeVars

NextCodec ==
    \/ CodecSave
    \/ CodecDamage
    \/ CodecOpen
    \/ CodecUpsert

SpecCodec == InitStore /\ [][NextCodec]_vars

\* the file the cache path names
CacheFile == IF realIno = 0 THEN <<>> ELSE inodes[realIno]

\* C13: a store loaded by cache_open from the file cache_save wrote for a
\* store holds the same documents as that store, each with the same pages
\* (uuid, page_num, mtime, sync_status, retry_count) in the same order.
C13_RoundTrip ==
    (call.op = "open" /\ call.whole) =>
        SameStore(table[Engine], call.before)

\* the store saved and opened has two documents, one of them without pages,
\* a page with retry_count 255 and pages with and without a page number
C13_Witness ==
    /\ call.op = "open" /\ call.whole
    /\ Len(call.before) = 2
    /\ \E d \in 1..2 : call.before[d].pages = <<>>
    /\ \E ptr \in AllPtrs(call.before) : PageAt(call.before, ptr).retry_count = 255
    /\ \E ptr \in AllPtrs(call.before) : PageAt(call.before, ptr).page_num = <<>>

\* C14: cache_open of a file that was cut short or has a bad magic, version,
\* document id length or page-number length returns a store without
\* documents, not dirty.
C14_DamagedLoadsEmpty ==
    (call.op = "open" /\ ~call.whole) =>
        (table[Engine] = <<>> /\ ~dirty[Engine])

\* C15: cache_open of a file cut right after the magic number returns a store
\* without documents that is not dirty; a cache_save that follows a
\* cache_add_or_update_page on that store returns 0, leaves the store not
\* dirty and writes a file that holds a valid header and exactly the store.
C15_TruncatedAfterMagic ==
    /\ (call.op = "open" /\ call.magicOnly) =>
          (table[Engine] = <<>> /\ ~dirty[Engine])
    /\ (call.op = "resave" /\ call.magicOnly) =>
          /\ call.rc = 0
          /\ ~dirty[Engine]
          /\ CacheFile = Encode(table[Engine])
          /\ LoadFile(CacheFile).hdr
          /\ SameStore(LoadFile(CacheFile).table, table[Engine])

\* the file that was cut after the magic number held documents, and the store
\* opened from it was given a page and saved
C15_Witness ==
    /\ call.op = "resave" /\ call.magicOnly
    /\ Len(table[Engine]) = 1
    /\ Len(table[Engine][1].pages) = 1

(***************************************************************************)
(* Shutdown (SpecStop): the main loops of the two programs, the            *)
(* termination signals sent to them, and how each process ends.  The       *)
(* engine installs signal_handler for SIGINT and SIGTERM; the watcher      *)
(* installs no handler, so the default action of the signal ends it        *)
(* wherever it stands.  cache_save and cache_reload run as whole calls.    *)
(***************************************************************************)
\* config.upload_interval_seconds
MaxInterval == 2

\* the variables the main loops leave alone
stopVars == <<tempIno, fd, lock, wbuf, woff, pending, pidx, processed, scan, attempt,
              hist, failedAt, ioFailures, intended, lastRead, saveLog, call, commit>>

\* a process that has returned from main or was ended by a signal
Ended == {"exited", "killed"}

\* the watcher's read returns an event: process_metadata_change or a direct
\* .rm change, up to the call of cache_save
StopWatcherScan ==
    \E doc_id \in DocIds, always_save \in BOOLEAN :
    \E names \in Orders(RmFiles(fsMtime, doc_id)) :
    LET r == scan_document_pages(table[Watcher], fsMtime, doc_id, names)
    IN
    /\ pc[Watcher] = "idle"
    /\ table' = [table EXCEPT ![Watcher] = r.table]
    /\ dirty' = [dirty EXCEPT ![Watcher] = dirty[Watcher] \/ r.updated > 0]
    /\ pc' = [pc EXCEPT ![Watcher] =
                 IF always_save \/ r.updated > 0 THEN "save" ELSE "idle"]
    /\ UNCHANGED <<fsMtime, inodes, realIno, stop>>
    /\ UNCHANGED stopVars

\* the cache_save that ends the handling of the event; the watcher then
\* blocks in read again
StopWatcherSave ==
    \E ok \in BOOLEAN :
    LET s == SaveWhole(table[Watcher], dirty[Watcher], ok)
    IN
    /\ pc[Watcher] = "save"
    /\ inodes' = s.inodes
    /\ realIno' = s.realIno
    /\ dirty' = [dirty EXCEPT ![Watcher] = s.dirty]
    /\ pc' = [pc EXCEPT ![Watcher] = "idle"]
    /\ UNCHANGED <<fsMtime, table, stop>>
    /\ UNCHANGED stopVars

\* SIGTERM or SIGINT sent to the watcher: no handler is installed, the process
\* ends at once, with no cache_save and no cache_close
StopSignalWatcher ==
    /\ Watcher \notin stop.sent
    /\ pc[Watcher] \notin Ended
    /\ stop' = [stop EXCEPT !.sent = @ \cup {Watcher},
                            !.end[Watcher] = [how |-> "killed", at |-> pc[Watcher],
                                              unsaved |-> dirty[Watcher]]]
    /\ pc' = [pc EXCEPT ![Watcher] = "killed"]
    /\ UNCHANGED <<fsMtime, table, dirty, inodes, realIno>>
    /\ UNCHANGED stopVars

\* SIGTERM or SIGINT sent to the engine: signal_handler sets keep_running = 0,
\* and a sleep(1) in progress returns
StopSignalEngine ==
    /\ Engine \notin stop.sent
    /\ pc[Engine] \notin Ended
    /\ stop' = [stop EXCEPT !.sent = @ \cup {Engine}, !.keep_running = FALSE]
    /\ UNCHANGED <<fsMtime, table, dirty, inodes, realIno, pc>>
    /\ UNCHANGED stopVars

\* while (keep_running): process_pending_pages from cache_reload to the call
\* of cache_save
StopEngineBatch ==
    LET rl == ReloadResult(realIno = 0, IF realIno = 0 THEN <<>> ELSE inodes[realIno],
                           dirty[Engine])
        pend == cache_get_pending_pages(rl.table, MAX_BATCH_SIZE)
    IN
    /\ pc[Engine] = "idle"
    /\ stop.keep_running
    /\ \E outs \in [1..Len(pend) -> IoOutcomes] :
       LET r == RunBatch(rl.table, pend, outs, 1,
                         [table |-> rl.table, processed |-> 0, touched |-> FALSE])
           is_dirty == rl.dirty \/ r.touched
       IN /\ table' = [table EXCEPT ![Engine] = r.table]
          /\ dirty' = [dirty EXCEPT ![Engine] = is_dirty]
          /\ pc' = [pc EXCEPT ![Engine] =
                       IF r.processed > 0 \/ is_dirty THEN "save" ELSE "sleep"]
    /\ stop' = [stop EXCEPT !.slept = 0,
                            !.late = @ + (IF Engine \in stop.sent THEN 1 ELSE 0)]
    /\ UNCHANGED <<fsMtime, inodes, realIno>>
    /\ UNCHANGED stopVars

\* the cache_save that ends process_pending_pages
StopEngineSave ==
    \E ok \in BOOLEAN :
    LET s == SaveWhole(table[Engine], dirty[Engine], ok)
    IN
    /\ pc[Engine] = "save"
    /\ inodes' = s.inodes
    /\ realIno' = s.realIno
    /\ dirty' = [dirty EXCEPT ![Engine] = s.dirty]
    /\ pc' = [pc EXCEPT ![Engine] = "sleep"]
    /\ UNCHANGED <<fsMtime, table, stop>>
    /\ UNCHANGED stopVars

\* for (i < upload_interval_seconds && keep_running): the call of sleep(1)
StopSleepBegin ==
    /\ pc[Engine] = "sleep"
    /\ stop.slept < MaxInterval
    /\ stop.keep_running
    /\ pc' = [pc EXCEPT ![Engine] = "sleeping"]
    /\ stop' = [stop EXCEPT !.late = @ + (IF Engine \in stop.sent THEN 1 ELSE 0)]
    /\ UNCHANGED <<fsMtime, table, dirty, inodes, realIno>>
    /\ UNCHANGED stopVars

\* sleep(1) returns, after its second or at the signal, and i++
StopSleepEnd ==
    /\ pc[Engine] = "sleeping"
    /\ pc' = [pc EXCEPT ![Engine] = "sleep"]
    /\ stop' = [stop EXCEPT !.slept = @ + 1]
    /\ UNCHANGED <<fsMtime, table, dirty, inodes, realIno>>
    /\ UNCHANGED stopVars

\* the for loop ends: back to the test of while (keep_running)
StopSleepDone ==
    /\ pc[Engine] = "sleep"
    /\ stop.slept >= MaxInterval \/ ~stop.keep_running
    /\ pc' = [pc EXCEPT ![Engine] = "idle"]
    /\ UNCHANGED <<fsMtime, table, dirty, inodes, realIno, stop>>
    /\ UNCHANGED stopVars

\* while (keep_running) ends: cache_close(cache, true), which runs cache_save
\* on a dirty store and frees the store, and return 0
StopEngineExit ==
    \E ok \in BOOLEAN :
    LET s == SaveWhole(table[Engine], dirty[Engine], ok)
    IN
    /\ pc[Engine] = "idle"
    /\ ~stop.keep_running
    /\ inodes' = s.inodes
    /\ realIno' = s.realIno
    /\ dirty' = [dirty EXCEPT ![Engine] = s.dirty]
    /\ pc' = [pc EXCEPT ![Engine] = "exited"]
    /\ stop' = [stop EXCEPT !.end[Engine] = [how |-> "exited", at |-> pc[Engine],
                                             unsaved |-> FALSE]]
    /\ UNCHANGED <<fsMtime, table>>
    /\ UNCHANGED stopVars

NextStop ==
    \/ IoUserEdit
    \/ StopWatcherScan
    \/ StopWatcherSave
    \/ StopSignalWatcher
    \/ StopSignalEngine
    \/ StopEngineBatch
    \/ StopEngineSave
    \/ StopSleepBegin
    \/ StopSleepEnd
    \/ StopSleepDone
    \/ StopEngineExit

SpecStop == InitIO /\ [][NextStop]_vars

\* C23: a process that has ended after a termination signal stood between two
\* iterations of its loop when it ended (the iteration in progress at the
\* signal was finished) and left no dirty store without a final cache_save;
\* the engine began no cycle and no sleep(1) after its signal.
C23_StopsCleanly ==
    /\ \A p \in Procs :
          stop.end[p].how # "none" =>
              (stop.end[p].at = "idle" /\ ~stop.end[p].unsaved)
    /\ stop.late = 0

(***************************************************************************)
(* The path filter (SpecMatch): is_under_shared_path applied to paths and  *)
(* filters, which are C strings: a sequence of characters that a NUL ends. *)
(***************************************************************************)
\* the longest full_path and the longest filter
MaxPathLen == 4
MaxFilterLen == 3

\* the characters of paths and filters: a letter, the separator, the star
Chars == {"a", "/", "*"}
NUL == "\\0"

RECURSIVE Strings(_)
\* the strings of at most n characters
Strings(n) ==
    IF n = 0 THEN {<<>>}
    ELSE LET shorter == Strings(n - 1)
         IN shorter \cup {str \o <<c>> : str \in {x \in shorter : Len(x) = n - 1},
                                         c \in Chars}

\* str[i] of C, i counted from 0; the NUL stands at strlen(str)
CharAt(str, i) == IF i < Len(str) THEN str[i + 1] ELSE NUL

RECURSIVE strncmp(_, _, _, _)
\* strncmp(a, b, n) from character i on: 0 when the strings agree on their
\* first n characters or end together before that
strncmp(a, b, i, n) ==
    IF i >= n THEN 0
    ELSE IF CharAt(a, i) # CharAt(b, i) THEN 1
    ELSE IF CharAt(a, i) = NUL THEN 0
    ELSE strncmp(a, b, i + 1, n)

\* strcmp(a, b): 0 when the strings are equal
strcmp(a, b) == strncmp(a, b, 0, Len(a) + Len(b) + 1)

\* a variant that tests the prefix and not the character that follows it
is_under_shared_path_prefix(full_path, filter) ==
    IF strcmp(filter, <<"*">>) = 0 THEN TRUE
    ELSE strncmp(full_path, filter, 0, Len(filter)) = 0

\* is_under_shared_path(full_path, filter), both not NULL
is_under_shared_path(full_path, filter) ==
    LET filter_len == Len(filter)
    IN IF strcmp(filter, <<"*">>) = 0 THEN TRUE
       ELSE IF strncmp(full_path, filter, 0, filter_len) # 0 THEN FALSE
       ELSE IF CharAt(full_path, filter_len) = NUL \/ CharAt(full_path, filter_len) = "/"
       THEN TRUE
       ELSE FALSE

\* a process has just started: its store is empty and not dirty; the cache
\* path holds content (no file when content is empty); c is the value of call
InitFresh(content, c) ==
    /\ call = c
    /\ inodes = [i \in Inodes |-> IF i = 1 THEN content ELSE <<>>]
    /\ realIno = IF content = <<>> THEN 0 ELSE 1
    /\ table = [p \in Procs |-> <<>>]
    /\ dirty = [p \in Procs |-> FALSE]
    /\ tempIno = 0
    /\ fsMtime = [f \in Files |-> 0]
    /\ pc = [p \in Procs |-> "idle"]
    /\ fd = [p \in Procs |-> 0]
    /\ lock = [p \in Procs |-> "UN"]
    /\ wbuf = [p \in Procs |-> <<>>]
    /\ woff = [p \in Procs |-> 0]
    /\ pending = <<>>
    /\ pidx = 1
    /\ processed = 0
    /\ scan = NoScan
    /\ attempt = NoAttempt
    /\ hist = [v \in Views |-> [f \in Files |-> -1]]
    /\ failedAt = {}
    /\ ioFailures = 0
    /\ intended = [i \in Inodes |-> {}]
    /\ lastRead = NoRead
    /\ saveLog = [p \in Procs |-> NoSave]
    /\ commit = NoCommit
    /\ stop = NoStop

\* the variables a call of the filter leaves alone: all but call
matchVars == <<fsMtime, table, dirty, inodes, realIno, tempIno, pc, fd, lock, wbuf,
               woff, pending, pidx, processed, scan, attempt, hist, failedAt,
               ioFailures, intended, lastRead, saveLog, commit, stop>>

\* the engine has built full_path and read the filter from its configuration
InitMatch ==
    \E full_path \in Strings(MaxPathLen), filter \in Strings(MaxFilterLen) :
        InitFresh(<<>>, [op |-> "args", full_path |-> full_path, filter |-> filter])

\* the call is_under_shared_path(path_info.full_path, config.shared_path)
MatchCall ==
    /\ call.op = "args"
    /\ call' = [op |-> "match", full_path |-> call.full_path, filter |-> call.filter,
                result |-> is_under_shared_path(call.full_path, call.filter)]
    /\ UNCHANGED matchVars

NextMatch == MatchCall

SpecMatch == InitMatch /\ [][NextMatch]_vars

\* full_path is filter followed by '/' and any rest
UnderFilter(full_path, filter) ==
    /\ Len(full_path) > Len(filter)
    /\ SubSeq(full_path, 1, Len(filter) + 1) = filter \o <<"/">>

\* C24: the filter "*" matches every path; any other filter matches exactly
\* the paths equal to it and the paths that start with it followed by '/'.
C24_Matches ==
    call.op = "match" =>
        (call.result <=> \/ call.filter = <<"*">>
                         \/ call.full_path = call.filter
                         \/ UnderFilter(call.full_path, call.filter))

\* the filter is a prefix of the first path component and not all of it
C24_Witness ==
    /\ call.op = "match"
    /\ call.filter = <<"a">>
    /\ call.full_path = <<"a", "a", "/", "a">>
    /\ ~call.result

(***************************************************************************)
(* Legacy files (SpecLegacy): the cache path holds a version 1 file, as    *)
(* save_cache of the first watcher wrote it: no status and no retry count. *)
(* A process opens it, reloads it, changes a page and saves.               *)
(***************************************************************************)
\* the items save_cache of the first watcher writes for a page
EncodePageV1(page) ==
    <<U("uuid", page.uuid), U("numlen", Len(page.page_num))>>
    \o (IF Len(page.page_num) > 0 THEN <<U("num", page.page_num)>> ELSE <<>>)
    \o <<U("mtime", page.mtime)>>

RECURSIVE EncodePagesV1(_, _)
EncodePagesV1(pages, i) ==
    IF i > Len(pages) THEN <<>>
    ELSE EncodePageV1(pages[i]) \o EncodePagesV1(pages, i + 1)

RECURSIVE EncodeDocsV1(_, _)
EncodeDocsV1(tbl, d) ==
    IF d > Len(tbl) THEN <<>>
    ELSE <<U("idlen", UUID_LEN), U("id", tbl[d].doc_id),
           U("npages", Len(tbl[d].pages))>>
         \o EncodePagesV1(tbl[d].pages, 1) \o EncodeDocsV1(tbl, d + 1)

\* the version 1 file of a table
EncodeV1(tbl) ==
    <<U("magic", CACHE_MAGIC), U("version", 1), U("ndocs", Len(tbl))>>
    \o EncodeDocsV1(tbl, 1)

\* the table with every page PENDING and retry_count 0
AsPending(tbl) ==
    [d \in 1..Len(tbl) |->
        [tbl[d] EXCEPT !.pages =
            [i \in 1..Len(tbl[d].pages) |->
                [tbl[d].pages[i] EXCEPT !.sync_status = SYNC_PENDING,
                                        !.retry_count = 0]]]]

\* the tables version 1 files were written from
LegacyTables == {AsPending(t) : t \in StoreTables}

\* a process is about to start; the cache path holds the version 1 file of t
InitLegacy ==
    \E t \in LegacyTables :
        InitFresh(EncodeV1(t), [op |-> "none", n |-> 0, legacy |-> t, opened |-> <<>>])

\* cache_open(path) on the version 1 file
LegacyOpen ==
    LET r == cache_open(FALSE, inodes[realIno])
    IN
    /\ call.op = "none"
    /\ table' = [table EXCEPT ![Engine] = r.table]
    /\ dirty' = [dirty EXCEPT ![Engine] = r.dirty]
    /\ call' = [call EXCEPT !.op = "open", !.n = @ + 1, !.opened = r.table]
    /\ UNCHANGED <<inodes, realIno, pending>>
    /\ UNCHANGED storeVars

\* cache_reload(cache) after the open, while the file is still the version 1 file
LegacyReload ==
    LET r == ReloadResult(FALSE, inodes[realIno], dirty[Engine])
    IN
    /\ call.op = "open"
    /\ table' = [table EXCEPT ![Engine] = r.table]
    /\ dirty' = [dirty EXCEPT ![Engine] = r.dirty]
    /\ call' = [call EXCEPT !.op = "reload", !.n = @ + 1]
    /\ UNCHANGED <<inodes, realIno, pending>>
    /\ UNCHANGED storeVars

\* cache_add_or_update_page on the store loaded
LegacyUpsert ==
    \E doc_id \in DocIds, page_uuid \in PageIds, a \in UpsertArgs :
    /\ call.op \in {"open", "reload"}
    /\ table' = [table EXCEPT ![Engine] =
                    cache_add_or_update_page(@, doc_id, page_uuid, a[1], a[2], a[3])]
    /\ dirty' = [dirty EXCEPT ![Engine] = TRUE]
    /\ call' = [call EXCEPT !.op = "upsert", !.n = @ + 1]
    /\ UNCHANGED <<inodes, realIno, pending>>
    /\ UNCHANGED storeVars

\* cache_update_page_status on the store loaded
LegacySetStatus ==
    \E doc_id \in DocIds, page_uuid \in PageIds, a \in StatusArgs :
    LET r == cache_update_page_status(table[Engine], doc_id, page_uuid, a[1], a[2])
    IN
    /\ call.op \in {"open", "reload"}
    /\ table' = [table EXCEPT ![Engine] = r.table]
    /\ dirty' = [dirty EXCEPT ![Engine] = @ \/ r.rc = 0]
    /\ call' = [call EXCEPT !.op = "status", !.n = @ + 1]
    /\ UNCHANGED <<inodes, realIno, pending>>
    /\ UNCHANGED storeVars

\* cache_save(cache)
LegacySave ==
    LET s == SaveWhole(table[Engine], dirty[Engine], TRUE)
    IN
    /\ call.op \in {"open", "reload", "upsert", "status"}
    /\ inodes' = s.inodes
    /\ realIno' = s.realIno
    /\ dirty' = [dirty EXCEPT ![Engine] = s.dirty]
    /\ call' = [call EXCEPT !.op = IF dirty[Engine] THEN "save" ELSE "nosave",
                            !.n = @ + 1]
    /\ UNCHANGED <<table, pending>>
    /\ UNCHANGED storeVars

NextLegacy ==
    \/ LegacyOpen
    \/ LegacyReload
    \/ LegacyUpsert
    \/ LegacySetStatus
    \/ LegacySave

SpecLegacy == InitLegacy /\ [][NextLegacy]_vars

\* the items of kind t in a file
UnitsOf(content, t) == {i \in 1..Len(content) : content[i].t = t}

\* C25: cache_open and cache_reload of a version 1 file load every page of it
\* as PENDING with retry_count 0, and the reload loads the very table the open
\* loaded; a cache_save that writes writes a version 2 file with a status and
\* a retry count for every page of the store.
C25_LegacyImport ==
    /\ call.op \in {"open", "reload"} =>
          /\ SameStore(table[Engine], call.legacy)
          /\ table[Engine] = call.opened
          /\ \A ptr \in AllPtrs(table[Engine]) :
                /\ PageAt(table[Engine], ptr).sync_status = SYNC_PENDING
                /\ PageAt(table[Engine], ptr).retry_count = 0
    /\ call.op = "save" =>
          /\ CacheFile[2] = U("version", CACHE_VERSION)
          /\ Cardinality(UnitsOf(CacheFile, "status")) = Cardinality(AllPtrs(table[Engine]))
          /\ Cardinality(UnitsOf(CacheFile, "retry")) = Cardinality(AllPtrs(table[Engine]))
          /\ SameStore(LoadFile(CacheFile).table, table[Engine])

\* a version 1 file of two documents with two pages each was opened and
\* reloaded, a page of it was marked FAILED, and the store was saved
C25_Witness ==
    /\ call.op = "save" /\ call.n = 4
    /\ Len(call.legacy) = 2
    /\ \A d \in 1..2 : Len(call.legacy[d].pages) = 2
    /\ \E ptr \in AllPtrs(table[Engine]) :
          PageAt(table[Engine], ptr).sync_status = SYNC_FAILED

(***************************************************************************)
(* The store from empty (SpecUnique): a process that has opened no file    *)
(* calls cache_add_or_update_page, cache_update_page_status, cache_save    *)
(* and cache_reload in any order.                                          *)
(***************************************************************************)
\* the most calls in a run of SpecUnique
MaxOps == 5

\* page_num, mtime and status of the upserts; status and retry_count of the
\* status updates
UniqueUpsertArgs == {<<<<48>>, 1, SYNC_PENDING>>}
UniqueStatusArgs == {<<SYNC_UPLOADED, 0>>}

UniqueUpsert ==
    \E doc_id \in DocIds, page_uuid \in PageIds, a \in UniqueUpsertArgs :
    /\ call.n < MaxOps
    /\ table' = [table EXCEPT ![Engine] =
                    cache_add_or_update_page(@, doc_id, page_uuid, a[1], a[2], a[3])]
    /\ dirty' = [dirty EXCEPT ![Engine] = TRUE]
    /\ call' = [op |-> "upsert", n |-> call.n + 1, reloaded |-> call.reloaded,
                known |-> InStore(table[Engine], doc_id, page_uuid)]
    /\ UNCHANGED <<inodes, realIno, pending>>
    /\ UNCHANGED storeVars

UniqueSetStatus ==
    \E doc_id \in DocIds, page_uuid \in PageIds, a \in UniqueStatusArgs :
    LET r == cache_update_page_status(table[Engine], doc_id, page_uuid, a[1], a[2])
    IN
    /\ call.n < MaxOps
    /\ table' = [table EXCEPT ![Engine] = r.table]
    /\ dirty' = [dirty EXCEPT ![Engine] = @ \/ r.rc = 0]
    /\ call' = [op |-> "status", n |-> call.n + 1, reloaded |-> call.reloaded,
                known |-> r.rc = 0]
    /\ UNCHANGED <<inodes, realIno, pending>>
    /\ UNCHANGED storeVars

UniqueSave ==
    LET s == SaveWhole(table[Engine], dirty[Engine], TRUE)
    IN
    /\ call.n < MaxOps
    /\ inodes' = s.inodes
    /\ realIno' = s.realIno
    /\ dirty' = [dirty EXCEPT ![Engine] = s.dirty]
    /\ call' = [op |-> "save", n |-> call.n + 1, reloaded |-> call.reloaded,
                known |-> FALSE]
    /\ UNCHANGED <<table, pending>>
    /\ UNCHANGED storeVars

UniqueReload ==
    LET r == ReloadResult(realIno = 0, IF realIno = 0 THEN <<>> ELSE inodes[realIno],
                          dirty[Engine])
    IN
    /\ call.n < MaxOps
    /\ table' = [table EXCEPT ![Engine] = r.table]
    /\ dirty' = [dirty EXCEPT ![Engine] = r.dirty]
    /\ call' = [op |-> "reload", n |-> call.n + 1, reloaded |-> TRUE, known |-> FALSE]
    /\ UNCHANGED <<inodes, realIno, pending>>
    /\ UNCHANGED storeVars

InitUnique == InitFresh(<<>>, [op |-> "none", n |-> 0, reloaded |-> FALSE, known |-> FALSE])

NextUnique ==
    \/ UniqueUpsert
    \/ UniqueSetStatus
    \/ UniqueSave
    \/ UniqueReload

SpecUnique == InitUnique /\ [][NextUnique]_vars

\* C26: no two documents of the store have the same doc_id, and no two pages
\* of a document have the same uuid.
C26_UniqueIds ==
    LET tbl == table[Engine]
    IN /\ \A d1, d2 \in 1..Len(tbl) : tbl[d1].doc_id = tbl[d2].doc_id => d1 = d2
       /\ \A d \in 1..Len(tbl) : \A i, j \in 1..Len(tbl[d].pages) :
             tbl[d].pages[i].uuid = tbl[d].pages[j].uuid => i = j

\* a store of two documents of one bucket was saved and reloaded, and the
\* last call was an upsert of a page the reloaded store already held
C26_Witness ==
    /\ call.op = "upsert" /\ call.reloaded /\ call.known
    /\ Len(table[Engine]) = 2

(***************************************************************************)
(* Deliveries that never succeed (SpecRetry): the server is down or        *)
(* answers with an error, so every upload_file returns -1; some pages are  *)
(* outside the shared path.  The content of a page does not change once    *)
(* its file exists; the user goes on creating pages, and the watcher saves *)
(* its store after each scan that found one.  Each cycle of the engine     *)
(* runs as a whole.                                                        *)
(***************************************************************************)
\* what the collaborators answer while no delivery succeeds
RetryOutcomes == {"fail", "filtered"}

\* history: per content file, the deliveries the engine has attempted for it
Tries == IF call.op = "cycle" THEN call.tries ELSE [f \in Files |-> 0]

\* the user creates a page of document A; no existing file is written again
RetryUserEdit ==
    \E f \in Files :
        /\ f[1] = DocA
        /\ fsMtime[f] = 0
        /\ ContentChange(f, 1)

\* one call of process_pending_pages: cache_reload, the batch, cache_save
RetryEngineCycle ==
    /\ pc[Engine] = "idle"
    /\ \E rl \in {ReloadResult(realIno = 0, IF realIno = 0 THEN <<>> ELSE inodes[realIno],
                                dirty[Engine])} :
       \E pend \in {cache_get_pending_pages(rl.table, MAX_BATCH_SIZE)} :
       \E outs \in [1..Len(pend) -> RetryOutcomes] :
       \E r \in {RunBatch(rl.table, pend, outs, 1,
                          [table |-> rl.table, processed |-> 0, touched |-> FALSE])} :
       \E is_dirty \in {rl.dirty \/ r.touched} :
       \E s \in {IF r.processed > 0 \/ is_dirty THEN SaveWhole(r.table, is_dirty, TRUE)
                 ELSE [inodes |-> inodes, realIno |-> realIno, dirty |-> is_dirty,
                       rc |-> 0]} :
       \* the entries of the batch upload_file was called for
       \E tried \in {{<<rl.table[pend[k][1]].doc_id, PageAt(rl.table, pend[k]).uuid>> :
                          k \in {j \in 1..Len(pend) : outs[j] = "fail"}}} :
          /\ table' = [table EXCEPT ![Engine] = r.table]
          /\ dirty' = [dirty EXCEPT ![Engine] = s.dirty]
          /\ inodes' = s.inodes
          /\ realIno' = s.realIno
          /\ call' = [op |-> "cycle",
                      tries |-> [f \in Files |->
                                    Tries[f] + (IF f \in tried THEN 1 ELSE 0)]]
    /\ scan' = NoScan
    /\ attempt' = NoAttempt
    /\ UNCHANGED <<fsMtime, pc, pending, pidx, processed, hist, failedAt, ioFailures>>
    /\ UNCHANGED ioVars

NextRetry ==
    \/ RetryUserEdit
    \/ WatcherMetadataEvent
    \/ WatcherRmEvent
    \/ RetryEngineCycle

SpecRetry == Init /\ [][NextRetry]_vars

\* C36: while no delivery succeeds and no content file is written again, the
\* engine attempts at most max_retries deliveries of a page; the page is then
\* FAILED (or it was SKIPPED before) and is in no later batch.
C36_AtMostMaxRetries ==
    \A f \in Files : Tries[f] <= MaxRetries

(***************************************************************************)
(* The retry counter at the end of its range (SpecWrap).  A FAILED page    *)
(* that the scanner marks PENDING keeps its retry_count, and the next      *)
(* failed delivery adds one: every round of edit and failed delivery       *)
(* raises the count of the page by one.  The runs start after the rounds   *)
(* that brought the count of page p1 to 254 or 255, the largest values a   *)
(* uint8_t holds, and go on as in Spec.                                    *)
(***************************************************************************)
InitWrap ==
    \E retry \in {254, 255} :
        InitWith(<<[doc_id |-> DocA, pages |-> <<InitPage(SYNC_FAILED, retry)>>]>>)

SpecWrap == InitWrap /\ [][Next]_vars

\* C37: a failed delivery of a page whose retry_count is r stores r + 1, as
\* an integer.
C37_CountsWithoutWrap ==
    attempt.result = "fail" =>
        Rec(table[Engine], attempt.file).retry_count = attempt.retry + 1

(***************************************************************************)
(* cache_open beside cache_reload (SpecLoad).  The cache path holds a      *)
(* version 2 file the engine saved or a version 1 file, whole or damaged,  *)
(* or no file.  The engine may change its store without saving it (as      *)
(* after a cache_save that failed); then a process that starts runs        *)
(* cache_open on the path (the store of the watcher) and the engine runs   *)
(* cache_reload on its handle.                                             *)
(***************************************************************************)
\* the stores of at most one document
LoadTables == {t \in StoreTables : Len(t) <= 1}

\* the engine holds a store it has not saved and there is no file; or the
\* engine opened its store when there was no file, and the first watcher has
\* since written a version 1 file
InitLoad ==
    \/ \E t \in LoadTables : InitHolding(t)
    \/ \E t \in LoadTables \ {<<>>} :
          InitFresh(EncodeV1(AsPending(t)),
                    [op |-> "save", n |-> 0, rc |-> 0, before |-> AsPending(t),
                     magicOnly |-> FALSE])

\* the engine sets the status of a page, or adds the page, and does not save
LoadTouch ==
    /\ call.op \in {"none", "save", "damage"}
    /\ table' = [table EXCEPT ![Engine] =
                    cache_add_or_update_page(@, DocA, "p1", <<48>>, 2, SYNC_PENDING)]
    /\ dirty' = [dirty EXCEPT ![Engine] = TRUE]
    /\ call' = [op |-> "touch", n |-> call.n + 1]
    /\ UNCHANGED <<inodes, realIno, pending>>
    /\ UNCHANGED storeVars

\* cache_open(path) by a process that starts
LoadOpen ==
    LET r == cache_open(realIno = 0, CacheFile)
    IN
    /\ call.op \in {"none", "save", "damage", "touch"}
    /\ table' = [table EXCEPT ![Watcher] = r.table]
    /\ dirty' = [dirty EXCEPT ![Watcher] = r.dirty]
    /\ call' = [op |-> "open", n |-> call.n + 1]
    /\ UNCHANGED <<inodes, realIno, pending>>
    /\ UNCHANGED storeVars

\* cache_reload(cache) by the engine
LoadReload ==
    LET r == ReloadResult(realIno = 0, CacheFile, dirty[Engine])
    IN
    /\ call.op = "open"
    /\ table' = [table EXCEPT ![Engine] = r.table]
    /\ dirty' = [dirty EXCEPT ![Engine] = r.dirty]
    /\ call' = [op |-> "reload", n |-> call.n + 1, rc |-> r.rc]
    /\ UNCHANGED <<inodes, realIno, pending>>
    /\ UNCHANGED storeVars

NextLoad ==
    \/ CodecSave
    \/ CodecDamage
    \/ LoadTouch
    \/ LoadOpen
    \/ LoadReload

SpecLoad == InitLoad /\ [][NextLoad]_vars

\* C38: cache_open and cache_reload of the same file, or of no file, yield
\* the same documents with the same pages, and neither store is dirty
\* afterwards.
C38_OpenAndReloadAgree ==
    call.op = "reload" =>
        /\ table[Engine] = table[Watcher]
        /\ ~dirty[Watcher]
        /\ ~dirty[Engine]


(***************************************************************************)
(* The cache file protocol under fair scheduling (SpecIOFair): a process   *)
(* that can take the next step of its cache_save or cache_reload takes it, *)
(* and a process blocked in flock gets the lock if the lock is free again  *)
(* and again.                                                              *)
(***************************************************************************)
\* the steps of cache_reload that follow its fopen
ReloadSteps == {"r_lock", "r_read"}

\* the steps of the cache_save and cache_reload of process p that do not wait
Running(p) ==
    \/ SaveOpen(p) \/ SaveWrite(p) \/ SaveUnlock(p) \/ SaveClose(p) \/ SaveRename(p)
    \/ (p = Engine /\ ReloadRead)

\* the flock calls of process p, which wait while the lock is held elsewhere
Locking(p) == SaveLock(p) \/ (p = Engine /\ ReloadLock)

\* the scheduler runs every process that is ready, and the kernel wakes a
\* process that waits in flock each time the lock is released
IoFairness ==
    \A p \in Procs : WF_vars(Running(p)) /\ SF_vars(Locking(p))

\* In SpecIOFair the user creates page p1 of document A and then changes it
FairUserEdit ==
    /\ fsMtime[<<DocA, "p1">>] < MaxTime
    /\ fsMtime' = [fsMtime EXCEPT ![<<DocA, "p1">>] = @ + 1]
    /\ UNCHANGED <<table, dirty, inodes, realIno, pc, ioFailures>>
    /\ UNCHANGED ioVars
    /\ UNCHANGED lifeVars

NextFair ==
    \/ FairUserEdit
    \/ IoWatcherEvent
    \/ \E p \in Procs : SaveOpen(p)
    \/ \E p \in Procs : SaveLock(p)
    \/ \E p \in Procs : SaveWrite(p)
    \/ \E p \in Procs : SaveUnlock(p)
    \/ \E p \in Procs : SaveClose(p)
    \/ \E p \in Procs : SaveRename(p)
    \/ ReloadOpen
    \/ ReloadLock
    \/ ReloadRead
    \/ IoEngineBatch

SpecIOFair == InitIO /\ [][NextFair]_vars /\ IoFairness

\* C39: with the cache_save calls of the two processes and the cache_reload
\* of the engine interleaved in any order, under fair scheduling every
\* cache_save that has opened its temp file returns, and every cache_reload
\* that has opened the cache file returns, with the file closed and no lock
\* held: no process waits in flock for ever.
C39_SaveAndReloadComplete ==
    /\ \A p \in Procs :
          (pc[p] \in SaveSteps) ~> (pc[p] = "idle" /\ fd[p] = 0 /\ lock[p] = "UN")
    /\ (pc[Engine] \in ReloadSteps) ~> (pc[Engine] = "batch" /\ fd[Engine] = 0 /\ lock[Engine] = "UN")

\* the cache_reload of the engine waits in flock(LOCK_SH) for the LOCK_EX the
\* cache_save of the watcher holds on the same file
C39_Witness ==
    /\ pc[Engine] = "r_lock"
    /\ fd[Watcher] = fd[Engine]
    /\ lock[Watcher] = "EX"

====
